---- MODULE Spec2Model ----
(***************************************************************************)
(* Download-lifecycle coordination core of aria2bot                        *)
(* (src/src/telegram/handlers/*.py): completion monitors, live detail      *)
(* refreshers, the dedup guard sets and the upload coordinator, under the  *)
(* single-threaded cooperative scheduler of asyncio.  One action is one    *)
(* run of a coroutine between two suspension points (awaits).              *)
(***************************************************************************)
EXTENDS Integers, FiniteSets, Sequences, TLC

\* ------------------------------------------------------------------ bounds
\* Monitor loop slots (asyncio tasks running _monitor_download).
MaxMonitors == 2
\* Stand-in for range(17280) of _monitor_download: polls one monitor may issue.
MaxMonitorPolls == 2
\* Refresher loop slots (asyncio tasks running _auto_refresh_detail).
MaxRefreshers == 3
\* Stand-in for range(60) of _auto_refresh_detail.
MaxRefreshPolls == 2
\* Coordinator task slots (asyncio tasks running _coordinated_auto_upload).
MaxCoordinators == 2
\* completed_length of a task, in steps of progress.
MaxCompleted == 2

Gids == {"g1"}
NoGid == "nogid"
\* Surface keys "chat_id:message_id" of messages showing a task's detail.
Keys == {"k1"}
NoKey == "nokey"
MonIds == 1..MaxMonitors
RefIds == 1..MaxRefreshers
CoordIds == 1..MaxCoordinators

\* Statuses aria2 reports (rpc.py DownloadTask.status); "none" is a gid the
\* daemon has not assigned yet, "gone" a task whose record was purged: a
\* status query for it is answered with an error (RpcError).
LiveStatus == {"waiting", "active", "paused"}
TerminalStatus == {"complete", "error", "removed"}
KnownStatus == LiveStatus \cup TerminalStatus

VARIABLES
    bot_instance,       \* app_ref._bot_instance: TRUE when set, FALSE when None
    app_bot_instance,   \* app._bot_instance (the global post_init assigns)
    remote,             \* the daemon's view: gid -> status
    completed,          \* the daemon's view: gid -> completed_length
    file,               \* dir/name of the task on disk: "absent", "small", "big"
    notified_gids,      \* Aria2BotAPIBase._notified_gids
    download_monitors,  \* Aria2BotAPIBase._download_monitors: gid -> slot, 0 = absent
    mon,                \* monitor loops: slot -> local state
    notify_calls,       \* send_message calls of the monitors: gid -> kind -> count
    notify_ok,          \* of those, the ones the sink accepted
    auto_refresh_tasks, \* Aria2BotAPIBase._auto_refresh_tasks: key -> slot, 0 = absent
    ref,                \* refresher loops: slot -> local state
    auto_uploaded_gids,     \* Aria2BotAPIBase._auto_uploaded_gids
    channel_uploaded_gids,  \* Aria2BotAPIBase._channel_uploaded_gids
    onedrive_config,        \* OneDriveConfig: enabled, auto_upload, delete_after_upload
    telegram_channel_config,\* TelegramChannelConfig, the same three flags
    telegram_channel,       \* Aria2BotAPIBase._telegram_channel: "none", or the bot it holds
    coord,              \* coordinator tasks: slot -> local state
    manual,             \* uploads requested by hand: backend -> local state
    pure,               \* the last call of a pure helper: function, input, output
    deleting,           \* the confirmed deletion in progress
    upload,             \* one OneDrive upload: clock, reports, message edits
    channel_upload,     \* one TelegramChannelClient.upload_file call
    allowed_users,      \* Aria2BotAPIBase.allowed_users
    gate,               \* the update being dispatched: handler, user, position
    service             \* SubprocessServiceManager and the aria2 processes

wiringVars == <<bot_instance, app_bot_instance>>
remoteVars == <<remote, completed, file>>
monVars == <<notified_gids, download_monitors, mon, notify_calls, notify_ok>>
refVars == <<auto_refresh_tasks, ref>>
guardVars == <<auto_uploaded_gids, channel_uploaded_gids>>
cfgVars == <<onedrive_config, telegram_channel_config, telegram_channel>>
gateVars == <<allowed_users, gate>>
sideVars == <<upload, channel_upload, gateVars, service>>
extraVars == <<manual, pure, deleting, sideVars>>

vars == <<bot_instance, app_bot_instance, remote, completed, file,
          notified_gids, download_monitors, mon, notify_calls, notify_ok,
          auto_refresh_tasks, ref, auto_uploaded_gids, channel_uploaded_gids,
          onedrive_config, telegram_channel_config, telegram_channel, coord,
          manual, pure, deleting, upload, channel_upload, allowed_users, gate,
          service>>

MonIdle == [pc |-> "idle", gid |-> NoGid, polls |-> 0, exit |-> "none", kind |-> "none"]

NoCounts == [k \in {"complete", "error"} |-> 0]

\* -------------------------------------------------------- the environment
\* app.py post_init (lines 39-45): assigns the module global of app.py; the
\* reference get_bot_instance() reads lives in handlers/app_ref.py and is
\* not touched here.
post_init ==
    /\ ~app_bot_instance
    /\ app_bot_instance' = TRUE
    /\ UNCHANGED <<extraVars, bot_instance, remoteVars, monVars, refVars, guardVars, cfgVars, coord>>

\* app_ref.set_bot_instance (lines 13-16).  No file of the repository calls
\* it; it is the module's public setter, available to an embedding
\* application or a test harness, and is modelled as an environment action.
set_bot_instance ==
    /\ ~bot_instance
    /\ bot_instance' = TRUE
    /\ UNCHANGED <<extraVars, app_bot_instance, remoteVars, monVars, refVars, guardVars, cfgVars, coord>>

\* app_ref.get_bot_instance (lines 19-21).
get_bot_instance == bot_instance

\* The daemon moves a task on its own: waiting -> active -> complete | error,
\* any live task may be removed, and the record of a stopped task may be
\* purged (a later status query then fails).  "unknown" is a task whose
\* status string is none of the six the bot knows, or is missing from the
\* answer (rpc.py 227: data.get("status", "unknown")).
RemoteNext(s) ==
    CASE s = "waiting" -> {"active", "removed"}
      [] s = "active" -> {"complete", "error", "removed"}
      [] s = "paused" -> {"removed"}
      [] s \in TerminalStatus -> {"gone"}
      [] s = "unknown" -> {"active"}
      [] OTHER -> {}

RemoteStep(g) ==
    /\ \E st \in RemoteNext(remote[g]) :
         /\ remote' = [remote EXCEPT ![g] = st]
         /\ IF st = "complete"
            THEN \E f \in {"absent", "small", "big"} : file' = [file EXCEPT ![g] = f]
            ELSE UNCHANGED file
    /\ UNCHANGED <<extraVars, wiringVars, completed, monVars, refVars, guardVars, cfgVars, coord>>

\* The daemon downloads: completed_length of an active task grows.
RemoteProgress(g) ==
    /\ remote[g] = "active"
    /\ completed[g] < MaxCompleted
    /\ completed' = [completed EXCEPT ![g] = @ + 1]
    /\ UNCHANGED <<extraVars, wiringVars, remote, file, monVars, refVars, guardVars, cfgVars, coord>>

\* What rpc.get_status(gid) can answer now (rpc.py _call, lines 72-104): the
\* task's snapshot, or RpcError (unknown gid, timeout, daemon unreachable).
PollResponses(g) ==
    {"RpcError"} \cup (IF remote[g] \in KnownStatus \cup {"unknown"} THEN {remote[g]} ELSE {})

\* ------------------------------------------------------ completion monitor
FreeMonitor == IF \E m \in MonIds : mon[m].pc = "idle"
               THEN CHOOSE m \in MonIds :
                        /\ mon[m].pc = "idle"
                        /\ \A n \in MonIds : mon[n].pc = "idle" => m <= n
               ELSE 0

\* The first run of _monitor_download (download.py 162-170): up to the first
\* await, the status query of the first iteration.
MonitorStarted(g) ==
    [pc |-> "poll", gid |-> g, polls |-> 1, exit |-> "none", kind |-> "none"]

\* download.py 155-160: _start_download_monitor.
start_download_monitor_unguarded(g) ==
    IF FreeMonitor = 0
    THEN UNCHANGED <<download_monitors, mon>>
    ELSE /\ mon' = [mon EXCEPT ![FreeMonitor] = MonitorStarted(g)]
         /\ download_monitors' = [download_monitors EXCEPT ![g] = FreeMonitor]

start_download_monitor(g) ==
    IF download_monitors[g] # 0 \/ FreeMonitor = 0
    THEN UNCHANGED <<download_monitors, mon>>
    ELSE /\ mon' = [mon EXCEPT ![FreeMonitor] = MonitorStarted(g)]
         /\ download_monitors' = [download_monitors EXCEPT ![g] = FreeMonitor]

\* download.py 29-59: add_download.  add_uri assigns the gid; when the status
\* query that follows fails (RpcError) the handler replies with the error and
\* no monitor is started.
add_download(g, statusOk) ==
    /\ remote[g] = "none"
    /\ FreeMonitor # 0
    /\ remote' = [remote EXCEPT ![g] = "waiting"]
    /\ IF statusOk
       THEN start_download_monitor(g)
       ELSE UNCHANGED <<download_monitors, mon>>
    /\ UNCHANGED <<extraVars, wiringVars, completed, file, notified_gids, notify_calls, notify_ok,
                   refVars, guardVars, cfgVars, coord>>

\* download.py 155-160 entered for a gid the daemon already knows: a second
\* start request for a task (the call sites are download.py 56, 82 and 113).
\* With an entry for the gid in the map the call returns at once.
start_download_monitor_again(g) ==
    /\ remote[g] # "none"
    /\ FreeMonitor # 0
    /\ start_download_monitor(g)
    /\ UNCHANGED <<extraVars, wiringVars, remoteVars, notified_gids, notify_calls, notify_ok,
                   refVars, guardVars, cfgVars, coord>>

\* _monitor_download entered directly, without the registry: the spec's test
\* of N concurrent monitors of one task id (download.py 162-170).
monitor_download(g, m) ==
    /\ mon[m].pc = "idle"
    /\ m = FreeMonitor
    /\ remote[g] # "none"
    /\ mon' = [mon EXCEPT ![m] = MonitorStarted(g)]
    /\ UNCHANGED <<extraVars, wiringVars, remoteVars, notified_gids, download_monitors,
                   notify_calls, notify_ok, refVars, guardVars, cfgVars, coord>>

\* download.py 188-189: finally: self._download_monitors.pop(gid, None).
MonitorExitKeepsEntry(m, why) ==
    /\ mon' = [mon EXCEPT ![m].pc = "done", ![m].exit = why]
    /\ UNCHANGED download_monitors

MonitorExit(m, why) ==
    /\ mon' = [mon EXCEPT ![m].pc = "done", ![m].exit = why]
    /\ download_monitors' = [download_monitors EXCEPT ![mon[m].gid] = 0]

\* download.py 175 / 180: if gid not in self._notified_gids.
NotifyGuard(g) == g \notin notified_gids

\* download.py 174-183 with 191-219: a terminal status was polled.  The gid
\* is marked before the notification coroutine is awaited; the coroutine
\* returns at once when get_bot_instance() is None, otherwise it suspends in
\* send_message.
MonitorTerminal(m, kind) ==
    LET g == mon[m].gid IN
    IF NotifyGuard(g)
    THEN /\ notified_gids' = notified_gids \cup {g}
         /\ IF get_bot_instance
            THEN /\ mon' = [mon EXCEPT ![m].pc = "notify", ![m].kind = kind]
                 /\ notify_calls' = [notify_calls EXCEPT ![g][kind] = @ + 1]
                 /\ UNCHANGED download_monitors
            ELSE /\ MonitorExit(m, kind)
                 /\ UNCHANGED notify_calls
    ELSE /\ MonitorExit(m, kind)
         /\ UNCHANGED <<notified_gids, notify_calls>>

\* download.py 171-172 and 184-185: RpcError and status removed break out of
\* the loop; nothing is marked and nothing is sent.
MonitorMarkedStop(m, why) ==
    /\ MonitorExit(m, why)
    /\ notified_gids' = notified_gids \cup {mon[m].gid}
    /\ UNCHANGED notify_calls
MonitorSilentStop(m, why) ==
    /\ MonitorExit(m, why)
    /\ UNCHANGED <<notified_gids, notify_calls>>

\* download.py 184-185: elif task.status == "removed": break.
BreaksUnlessLive(status) == status \notin LiveStatus
BreaksSilently(status) == status = "removed"

\* download.py 168-187: the status query of one iteration returns.
MonitorPollReturn(m) ==
    /\ mon[m].pc = "poll"
    /\ \E resp \in PollResponses(mon[m].gid) :
         CASE resp = "RpcError" -> MonitorSilentStop(m, "rpcerror")
           [] resp \in {"complete", "error"} -> MonitorTerminal(m, resp)
           [] BreaksSilently(resp) -> MonitorSilentStop(m, "removed")
           [] OTHER ->
                /\ mon' = [mon EXCEPT ![m].pc = "sleep"]
                /\ UNCHANGED <<notified_gids, notify_calls, download_monitors>>
    /\ UNCHANGED <<extraVars, wiringVars, remoteVars, notify_ok, refVars, guardVars, cfgVars, coord>>

\* download.py 204-205 / 218-219: except Exception around send_message.
\* The exception is logged inside the notification coroutine; the loop goes
\* on to its break as after a send that succeeded.
MonitorSendFailureRaised(m) == MonitorExit(m, "raised")
MonitorSendFailure(m) == MonitorExit(m, mon[m].kind)

\* download.py 200-205 / 216-219: send_message returns or raises; the loop
\* breaks, the finally block runs.
MonitorNotifyReturn(m, ok) ==
    /\ mon[m].pc = "notify"
    /\ notify_ok' = [notify_ok EXCEPT ![mon[m].gid][mon[m].kind] =
                        IF ok THEN @ + 1 ELSE @]
    /\ IF ok THEN MonitorExit(m, mon[m].kind) ELSE MonitorSendFailure(m)
    /\ UNCHANGED <<extraVars, wiringVars, remoteVars, notified_gids, notify_calls,
                   refVars, guardVars, cfgVars, coord>>

\* download.py 168 and 187: asyncio.sleep(5) returns; the next iteration
\* polls, or the range is exhausted and the loop ends.  MonitorRange is the
\* test of `for _ in range(17280)` after polls iterations.
MonitorRangeAlways(polls) == TRUE
MonitorRange(polls) == polls < MaxMonitorPolls

MonitorWake(m) ==
    /\ mon[m].pc = "sleep"
    /\ IF MonitorRange(mon[m].polls)
       THEN /\ mon' = [mon EXCEPT ![m].pc = "poll", ![m].polls = @ + 1]
            /\ UNCHANGED download_monitors
       ELSE MonitorExit(m, "cap")
    /\ UNCHANGED <<extraVars, wiringVars, remoteVars, notified_gids, notify_calls, notify_ok,
                   refVars, guardVars, cfgVars, coord>>


\* ---------------------------------------------------- live detail refresher
NoText == <<"", 0>>

\* callbacks.py 340-355: the detail text.  It shows the status and the
\* progress rounded to one decimal ("{task.progress:.1f}%", _format_size), so
\* neighbouring byte counts render the same text.
RenderText(st, done) == <<st, done \div 2>>

RefIdle == [pc |-> "idle", gid |-> NoGid, key |-> NoKey, last |-> NoText,
            text |-> NoText, status |-> "none", polls |-> 0,
            exit |-> "none"]

CoordIdle == [pc |-> "idle", gid |-> NoGid, bot |-> FALSE, mode |-> "none",
              size_ok |-> TRUE, od |-> "none", tg |-> "none", warned |-> FALSE, deleted |-> FALSE,
              trig_od |-> FALSE, trig_tg |-> FALSE, final |-> "none", exit |-> "none"]

FreeRefresher == IF \E r \in RefIds : ref[r].pc = "idle"
                 THEN CHOOSE r \in RefIds :
                          /\ ref[r].pc = "idle"
                          /\ \A q \in RefIds : ref[q].pc = "idle" => r <= q
                 ELSE 0

FreeCoordinator == IF \E c \in CoordIds : coord[c].pc = "idle"
                   THEN CHOOSE c \in CoordIds :
                            /\ coord[c].pc = "idle"
                            /\ \A d \in CoordIds : coord[d].pc = "idle" => c <= d
                   ELSE 0

\* A loop suspended at one of its awaits (status query, edit_text, sleep).
RefRunning(r) == ref[r].pc \in {"poll", "edit", "sleep"}

\* A loop that has been started and has not returned; pc "cancelled" is a
\* loop whose task was cancelled and that has not been resumed since.
RefLive(r) == RefRunning(r) \/ ref[r].pc = "cancelled"

\* What is left of a loop's locals once nothing reads them any more: the
\* status of its last poll when that was complete.
Forget(loop) ==
    [loop EXCEPT !.last = NoText, !.text = NoText, !.polls = 0,
                 !.status = IF loop.status = "complete" THEN "complete" ELSE "none"]

\* callbacks.py 301-307: _stop_auto_refresh.  The entry is popped and the
\* task it names is cancelled: CancelledError is thrown into the loop when it
\* is next resumed (cancelling a finished task does nothing).
StopAutoRefresh(tasks, loops, k) ==
    IF tasks[k] # 0
    THEN [map |-> [tasks EXCEPT ![k] = 0],
          loops |-> IF RefRunning(tasks[k])
                    THEN [loops EXCEPT ![tasks[k]] = [Forget(@) EXCEPT !.pc = "cancelled"]]
                    ELSE loops]
    ELSE [map |-> tasks, loops |-> loops]

\* callbacks.py 309-324: _handle_detail_callback (actions detail and refresh,
\* and the tail of pause and resume).  The new task runs _auto_refresh_detail
\* up to its first await, the status query, before any other handler runs.
StartRefresher(k, g) ==
    LET stopped == StopAutoRefresh(auto_refresh_tasks, ref, k)
        r == FreeRefresher
    IN /\ r # 0
       /\ ref' = [stopped.loops EXCEPT ![r] =
                    [RefIdle EXCEPT !.pc = "poll", !.gid = g, !.key = k, !.polls = 1]]
       /\ auto_refresh_tasks' = [stopped.map EXCEPT ![k] = r]

handle_detail_callback(k, g) ==
    /\ remote[g] # "none"
    /\ StartRefresher(k, g)
    /\ UNCHANGED <<extraVars, wiringVars, remoteVars, monVars, guardVars, cfgVars, coord>>

\* callbacks.py 244-249: rpc.pause succeeded, then the detail handler.
handle_pause_callback(k, g) ==
    /\ remote[g] \in {"waiting", "active"}
    /\ remote' = [remote EXCEPT ![g] = "paused"]
    /\ StartRefresher(k, g)
    /\ UNCHANGED <<extraVars, wiringVars, completed, file, monVars, guardVars, cfgVars, coord>>

\* callbacks.py 251-256: rpc.unpause succeeded, then the detail handler.
handle_resume_callback(k, g) ==
    /\ remote[g] = "paused"
    /\ remote' = [remote EXCEPT ![g] = "waiting"]
    /\ StartRefresher(k, g)
    /\ UNCHANGED <<extraVars, wiringVars, completed, file, monVars, guardVars, cfgVars, coord>>

\* callbacks.py 100-103: any other action (list, delete, confirm_del, stats,
\* cancel, cloud, upload) pressed on the message stops its refresh.
handle_other_callback(k) ==
    /\ LET stopped == StopAutoRefresh(auto_refresh_tasks, ref, k)
       IN /\ ref' = stopped.loops
          /\ auto_refresh_tasks' = stopped.map
    /\ UNCHANGED <<extraVars, wiringVars, remoteVars, monVars, guardVars, cfgVars, coord>>

\* callbacks.py 409-410: finally: self._auto_refresh_tasks.pop(key, None).
\* exit records whether the loop returned through the branch of a complete
\* task, the one that holds the upload hand-off, or in any other way (another
\* terminal status, the break after an exception, the cap, cancellation).
RefresherExit(loops, r, why) ==
    /\ ref' = [loops EXCEPT ![r] =
                 [Forget(@) EXCEPT !.pc = "done",
                                   !.exit = IF why = "complete" THEN why ELSE "other"]]
    /\ auto_refresh_tasks' = [auto_refresh_tasks EXCEPT ![ref[r].key] = 0]

\* callbacks.py 386: the guard of the upload hand-off.
AutoUploadGuardAlways(g) == TRUE
AutoUploadGuard(g) == g \notin auto_uploaded_gids

\* callbacks.py 388-398 and cloud_coordinator.py 28-37.
need_onedrive == onedrive_config.enabled /\ onedrive_config.auto_upload
need_telegram == telegram_channel_config.enabled /\ telegram_channel_config.auto_upload

\* callbacks.py 399-400: self._auto_uploaded_gids.add(gid) and
\* self._channel_uploaded_gids.add(gid), before create_task.
MarkUploadedLate(marked, g) == marked
MarkUploadedOnly(marked, g) == {g}

MarkUploaded(marked, g) == marked \cup {g}

\* callbacks.py 386-398: does this render hand the task to the coordinator.
HandsOff(g, st) ==
    st = "complete" /\ AutoUploadGuard(g) /\ (need_onedrive \/ need_telegram)

\* callbacks.py 383-408: after the render.  A terminal status ends the loop;
\* for complete the gid is marked in both guard sets and the coordinator task
\* is created with the bot reference read now; otherwise the loop sleeps.
RefresherAfterRender(loops, r, st) ==
    LET g == ref[r].gid IN
    IF st \in TerminalStatus
    THEN /\ RefresherExit(loops, r, st)
         /\ IF HandsOff(g, st)
            THEN /\ FreeCoordinator # 0
                 /\ auto_uploaded_gids' = MarkUploaded(auto_uploaded_gids, g)
                 /\ channel_uploaded_gids' = MarkUploaded(channel_uploaded_gids, g)
                 /\ coord' = [coord EXCEPT ![FreeCoordinator] =
                                [CoordIdle EXCEPT !.pc = "start", !.gid = g,
                                                  !.bot = get_bot_instance]]
            ELSE UNCHANGED <<guardVars, coord>>
    ELSE /\ ref' = [loops EXCEPT ![r].pc = "sleep", ![r].text = NoText,
                                 ![r].status = "none"]
         /\ UNCHANGED <<auto_refresh_tasks, guardVars, coord>>

\* callbacks.py 373: if text != last_text.
TextChangedAlways(text, last) == TRUE
TextChanged(text, last) == text # last

\* callbacks.py 334-381: the status query returns.  RpcError ends the loop;
\* a changed text is sent with edit_text (await); an unchanged one is not.
RefresherPollReturn(r) ==
    /\ ref[r].pc = "poll"
    /\ \E resp \in PollResponses(ref[r].gid) :
         IF resp = "RpcError"
         THEN /\ RefresherExit(ref, r, "rpcerror")
              /\ UNCHANGED <<guardVars, coord>>
         ELSE LET text == RenderText(resp, completed[ref[r].gid])
                  seen == [ref EXCEPT ![r].status = resp]
              IN IF TextChanged(text, ref[r].last)
                 THEN /\ ref' = [seen EXCEPT ![r].pc = "edit", ![r].text = text]
                      /\ UNCHANGED <<auto_refresh_tasks, guardVars, coord>>
                 ELSE RefresherAfterRender(seen, r, resp)
    /\ UNCHANGED <<extraVars, wiringVars, remoteVars, monVars, cfgVars>>

\* callbacks.py 374-381: edit_text returns (last_text is updated) or raises
\* (the loop breaks).
RefresherEditReturn(r, ok) ==
    /\ ref[r].pc = "edit"
    /\ IF ok
       THEN RefresherAfterRender([ref EXCEPT ![r].last = ref[r].text], r, ref[r].status)
       ELSE /\ RefresherExit(ref, r, "editfail")
            /\ UNCHANGED <<guardVars, coord>>
    /\ UNCHANGED <<extraVars, wiringVars, remoteVars, monVars, cfgVars>>

\* callbacks.py 334 and 408: asyncio.sleep(2) returns; the next iteration
\* polls, or the range is exhausted and the loop ends.  RefreshRange is the
\* test of `for _ in range(60)` after polls iterations.
RefreshRangeNever(polls) == FALSE
RefreshRange(polls) == polls < MaxRefreshPolls

RefresherWake(r) ==
    /\ ref[r].pc = "sleep"
    /\ IF RefreshRange(ref[r].polls)
       THEN /\ ref' = [ref EXCEPT ![r].pc = "poll", ![r].polls = @ + 1]
            /\ UNCHANGED auto_refresh_tasks
       ELSE RefresherExit(ref, r, "cap")
    /\ UNCHANGED <<extraVars, wiringVars, remoteVars, monVars, guardVars, cfgVars, coord>>

\* A cancelled loop is resumed: CancelledError is raised at its await, no
\* except clause of the loop catches it, the finally block runs.
RefresherCancelled(r) ==
    /\ ref[r].pc = "cancelled"
    /\ RefresherExit(ref, r, "cancelled")
    /\ UNCHANGED <<extraVars, wiringVars, remoteVars, monVars, guardVars, cfgVars, coord>>

\* ------------------------------------------------------ upload coordinator
\* cloud_coordinator.py 40-42: need_coordinated_delete.
need_coordinated_delete ==
    /\ need_onedrive /\ onedrive_config.delete_after_upload
    /\ need_telegram /\ telegram_channel_config.delete_after_upload

CoordExit(c, why) == coord' = [coord EXCEPT ![c].pc = "done", ![c].exit = why]

\* cloud_coordinator.py 16-58 and 60-68: the first run of the coordinator
\* task.  A missing file ends it.  In coordinated mode it suspends in
\* is_authenticated().  Otherwise each backend that is needed and whose guard
\* set does not hold the gid is marked and its trigger task is created.
CoordStart(c) ==
    /\ coord[c].pc = "start"
    /\ LET g == coord[c].gid
           start_od == need_onedrive /\ g \notin auto_uploaded_gids
           start_tg == need_telegram /\ g \notin channel_uploaded_gids
       IN IF file[g] = "absent"
          THEN /\ CoordExit(c, "nofile")
               /\ UNCHANGED guardVars
          ELSE IF need_coordinated_delete
          THEN /\ coord' = [coord EXCEPT ![c].pc = "auth", ![c].mode = "coordinated"]
               /\ UNCHANGED guardVars
          ELSE /\ coord' = [coord EXCEPT ![c].pc = "done", ![c].exit = "independent",
                                         ![c].mode = "independent",
                                         ![c].trig_od = start_od, ![c].trig_tg = start_tg]
               /\ auto_uploaded_gids' =
                      IF start_od THEN auto_uploaded_gids \cup {g} ELSE auto_uploaded_gids
               /\ channel_uploaded_gids' =
                      IF start_tg THEN channel_uploaded_gids \cup {g} ELSE channel_uploaded_gids
    /\ UNCHANGED <<extraVars, wiringVars, remoteVars, monVars, refVars, cfgVars>>

\* base.py 125-138: _get_telegram_channel_client(bot).  The client is built
\* once, around the bot reference of the first caller, and kept.
get_telegram_channel_client(bot) ==
    IF telegram_channel = "none" /\ telegram_channel_config.enabled
    THEN (IF bot THEN "bot" ELSE "nobot")
    ELSE telegram_channel

\* cloud_coordinator.py 93-124: the upload tasks handed to asyncio.gather.
\* OneDrive takes part when authenticated, the channel when the file fits.
CoordGather(c, od_auth, size_ok) ==
    IF od_auth \/ size_ok
    THEN coord' = [coord EXCEPT ![c].pc = "gather",
                                ![c].od = IF od_auth THEN "start" ELSE "none",
                                ![c].tg = IF size_ok THEN "start" ELSE "none"]
    ELSE CoordExit(c, "notasks")

\* cloud_coordinator.py 68-91: is_authenticated() returns.  The channel
\* client is fetched; for a file over its limit the warning is sent through
\* the bot parameter (None raises AttributeError out of the coordinator).
CoordAuthReturn(c, od_auth) ==
    /\ coord[c].pc = "auth"
    /\ telegram_channel' = get_telegram_channel_client(coord[c].bot)
    /\ IF file[coord[c].gid] = "big"
       THEN IF coord[c].bot
            THEN coord' = [coord EXCEPT ![c].pc = "warn", ![c].size_ok = FALSE,
                                        ![c].od = IF od_auth THEN "start" ELSE "none"]
            ELSE coord' = [coord EXCEPT ![c].pc = "done", ![c].size_ok = FALSE,
                                        ![c].exit = "raised"]
       ELSE CoordGather(c, od_auth, TRUE)
    /\ UNCHANGED <<extraVars, wiringVars, remoteVars, monVars, refVars, guardVars,
                   onedrive_config, telegram_channel_config>>

\* cloud_coordinator.py 88-91: the warning's send_message returns or raises.
CoordWarnReturn(c, ok) ==
    /\ coord[c].pc = "warn"
    /\ IF ok
       THEN IF coord[c].od = "start"
            THEN coord' = [coord EXCEPT ![c].pc = "gather", ![c].warned = TRUE]
            ELSE coord' = [coord EXCEPT ![c].pc = "done", ![c].exit = "notasks",
                                        ![c].warned = TRUE]
       ELSE CoordExit(c, "raised")
    /\ UNCHANGED <<extraVars, wiringVars, remoteVars, monVars, refVars, guardVars, cfgVars>>

\* cloud_onedrive.py 275-306: _do_auto_upload starts.  Without a bot
\* instance it returns False; otherwise it sends the start notice.
OdStart(c) ==
    /\ coord[c].pc = "gather" /\ coord[c].od = "start"
    /\ coord' = [coord EXCEPT ![c].od = IF get_bot_instance THEN "notice" ELSE "F"]
    /\ UNCHANGED <<extraVars, wiringVars, remoteVars, monVars, refVars, guardVars, cfgVars>>

\* cloud_onedrive.py 300-306: the notice is sent (upload_file is awaited
\* next) or send_message raised (return False).
OdNoticeReturn(c, ok) ==
    /\ coord[c].pc = "gather" /\ coord[c].od = "notice"
    /\ coord' = [coord EXCEPT ![c].od = IF ok THEN "xfer" ELSE "F"]
    /\ UNCHANGED <<extraVars, wiringVars, remoteVars, monVars, refVars, guardVars, cfgVars>>

\* base.py 145-161: _delete_local_file removes the file or directory.
delete_local_file(g) == [file EXCEPT ![g] = "absent"]

\* cloud_coordinator.py 106 and 114: both uploads are called with
\* skip_delete=True.
CoordinatedSkipDelete == TRUE

\* cloud_onedrive.py 337-341 and cloud_channel.py 89-93: the backend deletes
\* the file itself when it is not told to skip that and its configuration
\* asks for it.
BackendDeletesWhenConfigured(skip_delete, config) == config.delete_after_upload
BackendDeletes(skip_delete, config) == ~skip_delete /\ config.delete_after_upload

\* cloud_onedrive.py 329-358: upload_file returns True (the file is deleted
\* unless skip_delete holds, the result message is edited next), returns
\* False or raises (False).
OdXferReturn(c, ok) ==
    /\ coord[c].pc = "gather" /\ coord[c].od = "xfer"
    /\ coord' = [coord EXCEPT ![c].od = IF ok THEN "report" ELSE "F"]
    /\ file' = IF ok /\ BackendDeletes(CoordinatedSkipDelete, onedrive_config)
               THEN delete_local_file(coord[c].gid)
               ELSE file
    /\ UNCHANGED <<extraVars, wiringVars, remote, completed, monVars, refVars, guardVars, cfgVars>>

\* cloud_onedrive.py 344-358: edit_text of the result returns (True) or
\* raises into the except clause (False).
OdReportReturn(c, ok) ==
    /\ coord[c].pc = "gather" /\ coord[c].od = "report"
    /\ coord' = [coord EXCEPT ![c].od = IF ok THEN "T" ELSE "F"]
    /\ UNCHANGED <<extraVars, wiringVars, remoteVars, monVars, refVars, guardVars, cfgVars>>

\* cloud_channel.py 78-82: _do_channel_upload starts: the notice goes
\* through the bot parameter; None raises AttributeError, which the except
\* clause turns into False.
TgStart(c) ==
    /\ coord[c].pc = "gather" /\ coord[c].tg = "start"
    /\ coord' = [coord EXCEPT ![c].tg = IF coord[c].bot THEN "notice" ELSE "F"]
    /\ UNCHANGED <<extraVars, wiringVars, remoteVars, monVars, refVars, guardVars, cfgVars>>

TgNoticeReturn(c, ok) ==
    /\ coord[c].pc = "gather" /\ coord[c].tg = "notice"
    /\ coord' = [coord EXCEPT ![c].tg = IF ok THEN "xfer" ELSE "F"]
    /\ UNCHANGED <<extraVars, wiringVars, remoteVars, monVars, refVars, guardVars, cfgVars>>

\* cloud_channel.py 84-109 with telegram_channel.py 39-82: upload_file
\* sends the document through the bot the client holds; a client built
\* around None fails every attempt.
TgXferReturn(c, ok) ==
    /\ coord[c].pc = "gather" /\ coord[c].tg = "xfer"
    /\ ok => telegram_channel = "bot"
    /\ coord' = [coord EXCEPT ![c].tg = IF ok THEN "report" ELSE "F"]
    /\ file' = IF ok /\ BackendDeletes(CoordinatedSkipDelete, telegram_channel_config)
               THEN delete_local_file(coord[c].gid)
               ELSE file
    /\ UNCHANGED <<extraVars, wiringVars, remote, completed, monVars, refVars, guardVars, cfgVars>>

TgReportReturn(c, ok) ==
    /\ coord[c].pc = "gather" /\ coord[c].tg = "report"
    /\ coord' = [coord EXCEPT ![c].tg = IF ok THEN "T" ELSE "F"]
    /\ UNCHANGED <<extraVars, wiringVars, remoteVars, monVars, refVars, guardVars, cfgVars>>

\* cloud_coordinator.py 127-133: all_success over the gathered results.
AllSuccessAny(c) == coord[c].od = "T" \/ coord[c].tg = "T"
AllSuccess(c) == coord[c].od \in {"none", "T"} /\ coord[c].tg \in {"none", "T"}

\* cloud_coordinator.py 124-147: gather returns when every upload has
\* returned.  On all_success the file is deleted; the closing message is
\* sent only when get_bot_instance() is set.
CoordGatherReturn(c) ==
    /\ coord[c].pc = "gather"
    /\ coord[c].od \in {"none", "T", "F"}
    /\ coord[c].tg \in {"none", "T", "F"}
    /\ LET ok == AllSuccess(c)
           after == [coord EXCEPT ![c].deleted = ok]
       IN /\ file' = IF ok THEN delete_local_file(coord[c].gid) ELSE file
          /\ IF get_bot_instance
             THEN coord' = [after EXCEPT ![c].pc = "final"]
             ELSE coord' = [after EXCEPT ![c].pc = "done", ![c].exit = "silent"]
    /\ UNCHANGED <<extraVars, wiringVars, remote, completed, monVars, refVars, guardVars, cfgVars>>

\* cloud_coordinator.py 140-147: the closing send_message returns or raises.
CoordFinalReturn(c, ok) ==
    /\ coord[c].pc = "final"
    /\ coord' = [coord EXCEPT ![c].pc = "done",
                              ![c].exit = IF ok THEN "reported" ELSE "raised",
                              ![c].final = IF ~ok THEN "none"
                                           ELSE IF coord[c].deleted THEN "all" ELSE "partial"]
    /\ UNCHANGED <<extraVars, wiringVars, remoteVars, monVars, refVars, guardVars, cfgVars>>

\* ------------------------------------------------ uploads requested by hand
\* callbacks.py 709-723 (_handle_upload_callback) dispatches the button of
\* a task to upload_to_cloud (OneDrive) or _upload_to_channel_manual.  One
\* record per backend follows the request now in progress.
MaxManualRuns == 2
ManualBackends == {"onedrive", "telegram"}
ManualIdle == [pc |-> "idle", gid |-> NoGid, runs |-> 0, exit |-> "none"]

ManualExit(b, why) == [manual EXCEPT ![b].pc = "done", ![b].exit = why]

\* base.py 117-123: _get_onedrive_client builds the client when the backend
\* is enabled; there is none otherwise.
get_onedrive_client == onedrive_config.enabled

\* cloud_onedrive.py 137-145: the request is logged, the client is fetched
\* and asked whether it is authenticated; without a client the refusal is
\* sent at once.
upload_to_cloud(g) ==
    /\ manual["onedrive"].pc \in {"idle", "done"}
    /\ manual["onedrive"].runs < MaxManualRuns
    /\ manual' = [manual EXCEPT !["onedrive"] =
                     [pc |-> IF get_onedrive_client THEN "auth" ELSE "done",
                      gid |-> g, runs |-> @.runs + 1,
                      exit |-> IF get_onedrive_client THEN "none" ELSE "unavailable"]]
    /\ UNCHANGED <<sideVars, wiringVars, remoteVars, monVars, refVars, guardVars, cfgVars,
                   coord, pure, deleting>>

\* cloud_onedrive.py 143-148: is_authenticated answers; the status query
\* is sent when it says yes.
ManualAuthReturn(authed) ==
    /\ manual["onedrive"].pc = "auth"
    /\ manual' = IF authed THEN [manual EXCEPT !["onedrive"].pc = "status"]
                 ELSE ManualExit("onedrive", "unavailable")
    /\ UNCHANGED <<sideVars, wiringVars, remoteVars, monVars, refVars, guardVars, cfgVars,
                   coord, pure, deleting>>

\* cloud_channel.py 160-175: the channel client is fetched (and built around
\* the bot of the update when there was none); the status query is sent.
upload_to_channel_manual(g) ==
    /\ manual["telegram"].pc \in {"idle", "done"}
    /\ manual["telegram"].runs < MaxManualRuns
    /\ telegram_channel' = get_telegram_channel_client(TRUE)
    /\ manual' = [manual EXCEPT !["telegram"] =
                     [pc |-> IF telegram_channel' = "none" THEN "done" ELSE "status",
                      gid |-> g, runs |-> @.runs + 1,
                      exit |-> IF telegram_channel' = "none" THEN "unavailable"
                               ELSE "none"]]
    /\ UNCHANGED <<sideVars, wiringVars, remoteVars, monVars, refVars, guardVars,
                   onedrive_config, telegram_channel_config, coord, pure, deleting>>

\* cloud_onedrive.py 147-161 and cloud_channel.py 170-191: what stops the
\* request once the status query is answered; "" lets it through.
ManualRefusal(b, resp, g) ==
    IF resp = "RpcError" THEN "rpcerror"
    ELSE IF resp # "complete" THEN "notcomplete"
    ELSE IF file[g] = "absent" THEN "nofile"
    ELSE IF b = "telegram" /\ file[g] = "big" THEN "toobig"
    ELSE ""

ManualStatusReturn(b) ==
    /\ manual[b].pc = "status"
    /\ \E resp \in PollResponses(manual[b].gid) :
         LET why == ManualRefusal(b, resp, manual[b].gid)
         IN manual' = IF why = "" THEN [manual EXCEPT ![b].pc = "notice"]
                      ELSE ManualExit(b, why)
    /\ UNCHANGED <<sideVars, wiringVars, remoteVars, monVars, refVars, guardVars, cfgVars,
                   coord, pure, deleting>>

\* cloud_onedrive.py 171-178 and cloud_channel.py 193-194: the "uploading"
\* message is sent, then the transfer starts (as a task of its own for
\* OneDrive, inside the handler for the channel).  A send that raises ends
\* the handler before any transfer.
ManualNoticeReturn(b, ok) ==
    /\ manual[b].pc = "notice"
    /\ manual' = IF ok THEN [manual EXCEPT ![b].pc = "xfer"]
                 ELSE ManualExit(b, "raised")
    /\ UNCHANGED <<sideVars, wiringVars, remoteVars, monVars, refVars, guardVars, cfgVars,
                   coord, pure, deleting>>

\* cloud_onedrive.py 219 and cloud_channel.py 197-200: the flag a successful
\* upload by hand consults before deleting the file.
ManualDeletesWhenBoth(b) ==
    onedrive_config.delete_after_upload /\ telegram_channel_config.delete_after_upload

ManualDeletes(b) ==
    IF b = "onedrive" THEN onedrive_config.delete_after_upload
    ELSE telegram_channel_config.delete_after_upload

\* cloud_onedrive.py 214-235 and cloud_channel.py 194-212: upload_file
\* answers; on success the file is removed when the backend's own flag says
\* so, and the result is written to the message.
ManualXferReturn(b, success) ==
    /\ manual[b].pc = "xfer"
    /\ (b = "telegram" /\ success) => telegram_channel = "bot"
    /\ manual' = ManualExit(b, IF success THEN "success" ELSE "failed")
    /\ file' = IF success /\ ManualDeletes(b)
               THEN delete_local_file(manual[b].gid) ELSE file
    /\ UNCHANGED <<sideVars, wiringVars, remote, completed, monVars, refVars, guardVars,
                   cfgVars, coord, pure, deleting>>

\* ------------------------------------------- deletion and settings buttons
\* callbacks.py 267-299: _handle_confirm_delete_callback.  One record follows
\* the confirmed deletion in progress: task is whether the status query
\* returned a snapshot; soft, forced and purged are the outcomes of remove,
\* force_remove and remove_download_result ("none": not called), locals of
\* the handler that are gone once it has returned.
DeleteIdle == [pc |-> "idle", gid |-> NoGid, delete_file |-> FALSE, task |-> FALSE,
               soft |-> "none", forced |-> "none", purged |-> "none"]

Outcome(ok) == IF ok THEN "ok" ELSE "failed"

\* callbacks.py 114-117 and 267-275: the confirmation arrives, the status of
\* the task is asked for.
handle_confirm_delete_callback(g, delete_file) ==
    /\ deleting.pc = "idle"
    /\ deleting' = [DeleteIdle EXCEPT !.pc = "status", !.gid = g, !.delete_file = delete_file]
    /\ UNCHANGED <<sideVars, wiringVars, remoteVars, monVars, refVars, guardVars, cfgVars,
                   coord, manual, pure>>

\* callbacks.py 272-279: the snapshot, or RpcError (task stays None); remove
\* is sent.
DeleteStatusReturn ==
    /\ deleting.pc = "status"
    /\ \E resp \in PollResponses(deleting.gid) :
         deleting' = [deleting EXCEPT !.pc = "remove", !.task = resp # "RpcError"]
    /\ UNCHANGED <<sideVars, wiringVars, remoteVars, monVars, refVars, guardVars, cfgVars,
                   coord, manual, pure>>

\* callbacks.py 280-284: except RpcError around rpc.remove: force_remove is
\* called when remove raised, and only then.
ForceAlways(soft_ok) == TRUE
ForceNeeded(soft_ok) == ~soft_ok

\* callbacks.py 278-284: remove returns (a live task becomes removed) or
\* raises RpcError (the task is stopped or unknown, or the daemon did not
\* answer); force_remove is sent after a failure, remove_download_result
\* otherwise.
DeleteRemoveReturn(ok) ==
    /\ deleting.pc = "remove"
    /\ ok => remote[deleting.gid] \in LiveStatus
    /\ remote' = IF ok THEN [remote EXCEPT ![deleting.gid] = "removed"] ELSE remote
    /\ deleting' = [deleting EXCEPT !.pc = IF ForceNeeded(ok) THEN "force" ELSE "purge",
                                    !.soft = Outcome(ok)]
    /\ UNCHANGED <<sideVars, wiringVars, completed, file, monVars, refVars, guardVars, cfgVars,
                   coord, manual, pure>>

\* callbacks.py 281-288: force_remove returns or raises RpcError, which is
\* passed over; remove_download_result is sent.
DeleteForceReturn(ok) ==
    /\ deleting.pc = "force"
    /\ ok => remote[deleting.gid] \in LiveStatus
    /\ remote' = IF ok THEN [remote EXCEPT ![deleting.gid] = "removed"] ELSE remote
    /\ deleting' = [deleting EXCEPT !.pc = "purge", !.forced = Outcome(ok)]
    /\ UNCHANGED <<sideVars, wiringVars, completed, file, monVars, refVars, guardVars, cfgVars,
                   coord, manual, pure>>

\* callbacks.py 285-293: remove_download_result drops the record of a stopped
\* task, or raises RpcError, which is passed over; the files are deleted next
\* when asked for and a snapshot was got, otherwise the message is written.
DeletePurgeReturn(ok) ==
    /\ deleting.pc = "purge"
    /\ ok => remote[deleting.gid] \in TerminalStatus
    /\ remote' = IF ok THEN [remote EXCEPT ![deleting.gid] = "gone"] ELSE remote
    /\ deleting' = [deleting EXCEPT !.pc =
                       IF deleting.delete_file /\ deleting.task THEN "files" ELSE "render",
                                    !.purged = Outcome(ok)]
    /\ UNCHANGED <<sideVars, wiringVars, completed, file, monVars, refVars, guardVars, cfgVars,
                   coord, manual, pure>>

\* callbacks.py 292-293 with rpc.py 183-207: delete_files removes what is at
\* dir/name (an OSError is logged there); the message is written next.
DeleteFilesReturn ==
    /\ deleting.pc = "files"
    /\ file' = delete_local_file(deleting.gid)
    /\ deleting' = [deleting EXCEPT !.pc = "render"]
    /\ UNCHANGED <<sideVars, wiringVars, remote, completed, monVars, refVars, guardVars, cfgVars,
                   coord, manual, pure>>

\* callbacks.py 295-299: edit_message_text with the task-deleted text
\* returns; the handler is over and its locals are gone.
DeleteRenderReturn ==
    /\ deleting.pc = "render"
    /\ deleting' = [DeleteIdle EXCEPT !.pc = "done", !.gid = deleting.gid,
                                      !.delete_file = deleting.delete_file,
                                      !.task = deleting.task]
    /\ UNCHANGED <<sideVars, wiringVars, remoteVars, monVars, refVars, guardVars, cfgVars,
                   coord, manual, pure>>

\* callbacks.py 545-556: the OneDrive settings buttons flip one flag.
OneDriveSettings == {"auto_upload", "delete_after"}

handle_onedrive_toggle(setting) ==
    /\ onedrive_config' =
           IF setting = "auto_upload"
           THEN [onedrive_config EXCEPT !.auto_upload = ~@]
           ELSE [onedrive_config EXCEPT !.delete_after_upload = ~@]
    /\ UNCHANGED <<extraVars, wiringVars, remoteVars, monVars, refVars, guardVars,
                   telegram_channel_config, telegram_channel, coord>>

\* callbacks.py 630-650 with base.py 140-143: the channel settings buttons;
\* flipping "enabled" drops the client and builds a new one around the bot of
\* the update when the backend is now enabled.
ChannelSettings == {"enabled", "auto_upload", "delete_after"}

handle_channel_toggle(setting) ==
    /\ telegram_channel_config' =
           IF setting = "enabled"
           THEN [telegram_channel_config EXCEPT !.enabled = ~@]
           ELSE IF setting = "auto_upload"
           THEN [telegram_channel_config EXCEPT !.auto_upload = ~@]
           ELSE [telegram_channel_config EXCEPT !.delete_after_upload = ~@]
    /\ telegram_channel' =
           IF setting = "enabled"
           THEN (IF telegram_channel_config'.enabled THEN "bot" ELSE "none")
           ELSE telegram_channel
    /\ UNCHANGED <<extraVars, wiringVars, remoteVars, monVars, refVars, guardVars,
                   onedrive_config, coord>>

\* ------------------------------------------------------------ pure helpers
\* Calls of the helpers that compute a value from their argument alone.  A
\* call is pending ("call") with its argument, then returned ("return")
\* with the value the helper computed.
NoCall == [fn |-> "none", pc |-> "none", arg |-> <<>>, out |-> <<>>]

Min(S) == CHOOSE x \in S : \A y \in S : x <= y

\* ---- rpc.py DownloadTask.progress (lines 41-46).  The float the property
\* returns is kept as the exact fraction num/den it stands for.
MaxLength == 4
Lengths == 0..MaxLength

ZeroPercent == [num |-> 0, den |-> 1]

progressUnguarded(completed_length, total_length) ==
    [num |-> completed_length * 100, den |-> total_length]

progress(completed_length, total_length) ==
    IF total_length = 0 THEN ZeroPercent
    ELSE [num |-> completed_length * 100, den |-> total_length]

\* ---- rpc.py DownloadTask.progress_bar (lines 48-52).  int(progress / 10)
\* of the fraction num/den, which is not negative, is the whole part of
\* num / (10 * den); a string repeated a negative number of times is empty.
\* The bar is kept as <<filled cells, empty cells>>.
Repeated(n) == IF n < 0 THEN 0 ELSE n

progress_bar(completed_length, total_length) ==
    LET p == progress(completed_length, total_length)
        pct == p.num \div (10 * p.den)
    IN <<Repeated(pct), Repeated(10 - pct)>>

\* ---- rpc.py _format_size (lines 19-25).  A byte count is written in base
\* 1024, least significant digit first, so that terabytes fit the checker's
\* integers; size.point counts the digits the divisions by 1024 have moved
\* behind the point.
MaxDigits == 5
DigitValues == {0, 1, 512, 1023}
Sizes == [1..MaxDigits -> DigitValues]

Kilo == 1024
Units == <<"B", "KB", "MB", "GB">>

\* size < 1024
BelowOrEqualKilo(size) ==
    \/ \A i \in (size.point + 2)..Len(size.digits) : size.digits[i] = 0
    \/ /\ \A i \in (size.point + 3)..Len(size.digits) : size.digits[i] = 0
       /\ size.point + 2 <= Len(size.digits)
       /\ size.digits[size.point + 2] = 1
       /\ \A i \in 1..(size.point + 1) : size.digits[i] = 0

BelowKilo(size) ==
    \A i \in (size.point + 2)..Len(size.digits) : size.digits[i] = 0

\* size /= 1024: exact in binary floating point for a count below 2^53
DivideByKilo(size) == [size EXCEPT !.point = @ + 1]

RECURSIVE WholePart(_, _)
WholePart(size, i) ==
    IF i > Len(size.digits) THEN 0
    ELSE size.digits[i] + Kilo * WholePart(size, i + 1)

\* m times the fraction behind the point: the integer part of the product
\* and whether anything is left behind the point.
RECURSIVE TimesFraction(_, _, _, _, _)
TimesFraction(size, m, i, carry, rest) ==
    IF i > size.point THEN [whole |-> carry, rest |-> rest]
    ELSE LET v == size.digits[i] * m + carry
         IN TimesFraction(size, m, i + 1, v \div Kilo, rest \/ (v % Kilo # 0))

\* f"{size:.1f}": the decimal nearest to the exact value, ties to the even
\* last digit (correct rounding of the float's exact value).
OneDecimal(size) ==
    LET half == TimesFraction(size, 20, 1, 0, FALSE)
        down == WholePart(size, size.point + 1) * 10 + half.whole \div 2
        up == \/ half.whole % 2 = 1 /\ half.rest
              \/ half.whole % 2 = 1 /\ ~half.rest /\ down % 2 = 1
        tenths == IF up THEN down + 1 ELSE down
    IN [whole |-> tenths \div 10, tenth |-> tenths % 10]

RECURSIVE FormatLoop(_, _)
FormatLoop(size, u) ==
    IF u > Len(Units) THEN [number |-> OneDecimal(size), unit |-> "TB"]
    ELSE IF BelowKilo(size) THEN [number |-> OneDecimal(size), unit |-> Units[u]]
    ELSE FormatLoop(DivideByKilo(size), u + 1)

format_size(digits) == FormatLoop([digits |-> digits, point |-> 0], 1)

\* ---- base.py _validate_download_url (lines 42-61).  A URL is the sequence
\* of its characters.
MaxUrlLength == 2048

Padded(head, n) == head \o [i \in 1..(n - Len(head)) |-> "a"]

UrlHeads == {
    <<>>,
    <<"h","t","t","p",":","/","/","h","/","a">>,
    <<"h","t","t","p","s",":","/","/","h">>,
    <<"H","T","T","P",":","/","/","h","/","a">>,
    <<"f","t","p",":","/","/","h","/","a">>,
    <<"m","a","g","n","e","t",":","?","x">>,
    <<"M","a","g","n","e","t",":","?","x">>,
    <<"h","/","a">>,
    <<"/","/","h","/","a">>,
    <<"h","t","t","p",":","/","/","/","a">>,
    <<"h","t","t","p",":","h","/","a">>,
    <<"h","t","t","p",":","/","/",":","1","/","a">>,
    <<"h","t","t","p","s",":","/","/","a","@","/","a">>,
    <<"h","t","t","p",":","/","/","a","@","h",":","1","/","a">>}

Urls == UrlHeads
        \cup {Padded(h, MaxUrlLength) : h \in UrlHeads}
        \cup {Padded(h, MaxUrlLength + 1) : h \in UrlHeads}

StartsWith(s, prefix) ==
    Len(s) >= Len(prefix) /\ SubSeq(s, 1, Len(prefix)) = prefix

\* index of the first character of s at or after position from that is in
\* cs, 0 when there is none (str.find)
Find(s, cs, from) ==
    LET at == {i \in from..Len(s) : s[i] \in cs}
    IN IF at = {} THEN 0 ELSE Min(at)

UpperCase == {"H", "T", "P", "M"}
LowerCase == {"h", "t", "p", "s", "f", "m", "a", "g", "n", "e", "x"}
SchemeChars == UpperCase \cup LowerCase \cup {"1", "+", "-", "."}

Lower(c) ==
    CASE c = "H" -> "h" [] c = "T" -> "t" [] c = "P" -> "p" [] c = "M" -> "m"
      [] OTHER -> c

\* urllib.parse.urlparse as base.py 54 calls it, for URLs without brackets,
\* blanks or control characters: the scheme is what stands before the
\* first colon when that is a letter followed by scheme characters, put in
\* lower case; the netloc is what follows a leading "//" up to the next
\* "/", "?" or "#".
urlparse(url) ==
    LET colon == Find(url, {":"}, 1)
        has_scheme == /\ colon > 1
                      /\ url[1] \in UpperCase \cup LowerCase
                      /\ \A j \in 1..(colon - 1) : url[j] \in SchemeChars
        rest == IF has_scheme THEN SubSeq(url, colon + 1, Len(url)) ELSE url
        end == Find(rest, {"/", "?", "#"}, 3)
    IN [scheme |-> IF has_scheme THEN [j \in 1..(colon - 1) |-> Lower(url[j])]
                   ELSE <<>>,
        netloc |-> IF ~StartsWith(rest, <<"/", "/">>) THEN <<>>
                   ELSE IF end = 0 THEN SubSeq(rest, 3, Len(rest))
                   ELSE SubSeq(rest, 3, end - 1)]

Http == <<"h","t","t","p">>
Https == <<"h","t","t","p","s">>
Magnet == <<"m","a","g","n","e","t",":">>
NoScheme == <<"none">>

validate_download_url(url) ==
    IF Len(url) > MaxUrlLength
    THEN [ok |-> FALSE, reason |-> "too long", scheme |-> <<>>]
    ELSE IF StartsWith(url, Magnet)
    THEN [ok |-> TRUE, reason |-> "", scheme |-> <<>>]
    ELSE LET parsed == urlparse(url)
         IN IF parsed.scheme \notin {Http, Https}
            THEN [ok |-> FALSE, reason |-> "unsupported scheme",
                  scheme |-> IF parsed.scheme = <<>> THEN NoScheme
                             ELSE parsed.scheme]
            ELSE IF parsed.netloc = <<>>
            THEN [ok |-> FALSE, reason |-> "invalid format", scheme |-> <<>>]
            ELSE [ok |-> TRUE, reason |-> "", scheme |-> <<>>]

\* ---- rpc.py Aria2RpcClient._call (lines 72-104).  What came back for the
\* request is <<transport, body, error>>: the httpx exception raised by the
\* post or by raise_for_status ("ok": none was), the kind of value the body
\* parses to ("notjson": json() raises JSONDecodeError), and for an object
\* what its "error" member is.
Transports == {"ConnectError", "TimeoutException", "HTTPStatusError", "RequestError"}
Bodies == {"notjson", "null", "number", "string", "array", "object"}
ErrorMembers == {"absent", "object_with_message", "object_without_message",
                 "string", "null"}
Replies ==
    {<<t, "none", "none">> : t \in Transports}
    \cup {<<"ok", b, "none">> : b \in Bodies \ {"object"}}
    \cup {<<"ok", "object", e>> : e \in ErrorMembers}

\* rpc.py 101-104: `"error" in data`, data["error"].get("message", ...) and
\* data.get("result") as Python evaluates them on the parsed value: the
\* membership test raises TypeError on None and on a number, and is a
\* substring or element test on a string or a list, which have no get.
AfterParse(body, error) ==
    CASE body \in {"null", "number"} -> <<"TypeError", "not iterable">>
      [] body \in {"string", "array"} -> <<"AttributeError", "get">>
      [] body = "object" /\ error = "absent" -> <<"return", "result">>
      [] body = "object" /\ error = "object_with_message" -> <<"RpcError", "message">>
      [] body = "object" /\ error = "object_without_message" -> <<"RpcError", "unknown error">>
      [] OTHER -> <<"AttributeError", "get">>

\* rpc.py 86-99: the except clauses around the request.
rpc_call(reply) ==
    CASE reply[1] = "ConnectError" -> <<"RpcError", "service not running">>
      [] reply[1] = "TimeoutException" -> <<"RpcError", "timeout">>
      [] reply[1] = "HTTPStatusError" -> <<"RpcError", "HTTP status">>
      [] reply[1] = "RequestError" -> <<"RpcError", "request failed">>
      [] reply[2] = "notjson" -> <<"RpcError", "parse failed">>
      [] OTHER -> AfterParse(reply[2], reply[3])

\* The calls: a helper applied to its pending argument.
Returns(fn, out) ==
    /\ pure.pc = "call"
    /\ pure.fn = fn
    /\ pure' = [pure EXCEPT !.pc = "return", !.out = out]
    /\ UNCHANGED <<sideVars, wiringVars, remoteVars, monVars, refVars, guardVars, cfgVars,
                   coord, manual, deleting>>

progress_call == Returns("progress", progress(pure.arg[1], pure.arg[2]))

format_size_call == Returns("_format_size", format_size(pure.arg))

validate_download_url_call ==
    Returns("_validate_download_url", validate_download_url(pure.arg))

rpc_call_call == Returns("_call", rpc_call(pure.arg))

progress_bar_call == Returns("progress_bar", progress_bar(pure.arg[1], pure.arg[2]))

\* ------------------------------------------------------------- specification
\* config.py 25-42: the flags of a backend, as the three ways it is run:
\* switched off, uploading automatically and keeping the file, uploading
\* automatically and deleting the file afterwards.
KeepFile == [enabled |-> TRUE, auto_upload |-> TRUE, delete_after_upload |-> FALSE]
DeleteFile == [enabled |-> TRUE, auto_upload |-> TRUE, delete_after_upload |-> TRUE]

NoBackend == [enabled |-> FALSE, auto_upload |-> FALSE, delete_after_upload |-> FALSE]
Backends == {NoBackend, KeepFile, DeleteFile}

\* ------------------------------------------------ OneDrive upload progress
\* cloud/onedrive.py 25: PROGRESS_UPDATE_INTERVAL, in seconds.
PROGRESS_UPDATE_INTERVAL == 2

MaxTime == 5        \* the clock stops here
MaxFileSize == 3    \* file sizes, in chunks

\* cloud/base.py 18-25: an UploadProgress, with the clock reading at which
\* the callback received it.
UploadProgress(status, total_size, uploaded_size, at) ==
    [status |-> status, total_size |-> total_size,
     uploaded_size |-> uploaded_size, at |-> at]

UploadIdle ==
    [pc |-> "idle", gid |-> NoGid, skip_delete |-> FALSE, now |-> 0,
     file_size |-> 0, uploaded_size |-> 0, last_progress_time |-> 0,
     success |-> FALSE, reports |-> <<>>, scheduled |-> <<>>, edits |-> <<>>]

\* cloud_onedrive.py 325-327: sync_progress_callback hands a report in
\* state uploading to the event loop (run_coroutine_threadsafe) and drops
\* every other report.
sync_progress_callback(u, report) ==
    [u EXCEPT !.reports = Append(@, report),
              !.scheduled = IF report.status = "uploading"
                            THEN Append(@, report) ELSE @]

\* cloud/onedrive.py 324: a chunk report is due.
ReportDueAlways(current_time, last_progress_time) == TRUE
ReportDue(current_time, last_progress_time) ==
    current_time - last_progress_time >= PROGRESS_UPDATE_INTERVAL

\* time.time() moves on while an upload is running.
UploadTick ==
    /\ upload.pc \notin {"idle", "done"}
    /\ upload.now < MaxTime
    /\ upload' = [upload EXCEPT !.now = @ + 1]
    /\ UNCHANGED <<service, gateVars, channel_upload, manual, pure, deleting, wiringVars, remoteVars, monVars, refVars,
                   guardVars, cfgVars, coord>>

\* cloud_onedrive.py 275-297: _do_auto_upload starts.  Without a bot
\* instance it returns False; otherwise it sends the start notice.
do_auto_upload(g, skip_delete, file_size) ==
    /\ upload.pc = "idle"
    /\ upload' = [UploadIdle EXCEPT !.pc = IF get_bot_instance THEN "notice" ELSE "done",
                                    !.gid = g, !.skip_delete = skip_delete,
                                    !.file_size = file_size]
    /\ UNCHANGED <<service, gateVars, channel_upload, manual, pure, deleting, wiringVars, remoteVars, monVars, refVars,
                   guardVars, cfgVars, coord>>

\* cloud_onedrive.py 300-306: the notice is sent (upload_file is called
\* next) or send_message raised (return False).
UploadNoticeReturn(ok) ==
    /\ upload.pc = "notice"
    /\ upload' = [upload EXCEPT !.pc = IF ok THEN "prepare" ELSE "done"]
    /\ UNCHANGED <<service, gateVars, channel_upload, manual, pure, deleting, wiringVars, remoteVars, monVars, refVars,
                   guardVars, cfgVars, coord>>

\* cloud/onedrive.py 151-174 and 201-211: upload_file up to its first
\* report.  An account that is not authenticated raises out of upload_file
\* (the check is outside the try); a failure of the drive calls, of the
\* folder path or of stat() is caught and reported as failed with total
\* size 0; otherwise the start report goes out: uploading, nothing sent yet.
UploadPrepareReturn(outcome) ==
    /\ upload.pc = "prepare"
    /\ upload' =
         CASE outcome = "unauthenticated" -> [upload EXCEPT !.pc = "raised"]
           [] outcome = "raised" ->
                [sync_progress_callback(upload,
                     UploadProgress("failed", 0, 0, upload.now))
                 EXCEPT !.pc = "result", !.success = FALSE]
           [] OTHER ->
                [sync_progress_callback(upload,
                     UploadProgress("uploading", upload.file_size, 0, upload.now))
                 EXCEPT !.pc = "session"]
    /\ UNCHANGED <<service, gateVars, channel_upload, manual, pure, deleting, wiringVars, remoteVars, monVars, refVars,
                   guardVars, cfgVars, coord>>

\* cloud/onedrive.py 349-356 and 267-295: the access token is fetched and
\* the upload session created.  A missing token or a transport error raises
\* into upload_file's except clause (failed report); a refusal of the
\* session returns False without a report; otherwise the loop starts with
\* last_progress_time set to the clock.
UploadSessionReturn(outcome) ==
    /\ upload.pc = "session"
    /\ upload' =
         CASE outcome = "raised" ->
                [sync_progress_callback(upload,
                     UploadProgress("failed", 0, 0, upload.now))
                 EXCEPT !.pc = "result", !.success = FALSE]
           [] outcome = "refused" -> [upload EXCEPT !.pc = "result", !.success = FALSE]
           [] OTHER -> [upload EXCEPT !.pc = "chunks", !.last_progress_time = upload.now]
    /\ UNCHANGED <<service, gateVars, channel_upload, manual, pure, deleting, wiringVars, remoteVars, monVars, refVars,
                   guardVars, cfgVars, coord>>

\* cloud/onedrive.py 297-335: one turn of the chunk loop.  The read gives
\* nothing (break), the PUT raises (failed report), is refused (return
\* False), or is accepted: 202 goes on, 200 and 201 end the loop.  After an
\* accepted chunk a report in state uploading goes out when the interval
\* has passed since last_progress_time.
UploadChunkReturn(response) ==
    /\ upload.pc = "chunks"
    /\ upload.uploaded_size < upload.file_size
    /\ upload' =
         CASE response = "eof" -> [upload EXCEPT !.pc = "complete"]
           [] response = "raised" ->
                [sync_progress_callback(upload,
                     UploadProgress("failed", 0, 0, upload.now))
                 EXCEPT !.pc = "result", !.success = FALSE]
           [] response = "refused" -> [upload EXCEPT !.pc = "result", !.success = FALSE]
           [] OTHER ->
                LET sent == upload.uploaded_size + 1
                    u == IF ReportDue(upload.now, upload.last_progress_time)
                         THEN [sync_progress_callback(upload,
                                   UploadProgress("uploading", upload.file_size,
                                                  sent, upload.now))
                               EXCEPT !.last_progress_time = upload.now]
                         ELSE upload
                IN [u EXCEPT !.uploaded_size = sent,
                             !.pc = IF response = "created" THEN "complete" ELSE "chunks"]
    /\ UNCHANGED <<service, gateVars, channel_upload, manual, pure, deleting, wiringVars, remoteVars, monVars, refVars,
                   guardVars, cfgVars, coord>>

\* cloud/onedrive.py 297: the loop ends when the whole size was sent.
UploadLoopExit ==
    /\ upload.pc = "chunks"
    /\ upload.uploaded_size >= upload.file_size
    /\ upload' = [upload EXCEPT !.pc = "complete"]
    /\ UNCHANGED <<service, gateVars, channel_upload, manual, pure, deleting, wiringVars, remoteVars, monVars, refVars,
                   guardVars, cfgVars, coord>>

\* cloud/onedrive.py 193-202: the thread returned True; the closing report
\* is in state completed and upload_file returns True.
UploadCompleted ==
    /\ upload.pc = "complete"
    /\ upload' = [sync_progress_callback(upload,
                      UploadProgress("completed", upload.file_size,
                                     upload.file_size, upload.now))
                  EXCEPT !.pc = "result", !.success = TRUE]
    /\ UNCHANGED <<service, gateVars, channel_upload, manual, pure, deleting, wiringVars, remoteVars, monVars, refVars,
                   guardVars, cfgVars, coord>>

\* cloud_onedrive.py 333-358: upload_file returned (or raised, which ends in
\* the except clause): the file is deleted when the upload succeeded and
\* deleting is asked for, and the result text replaces the message.
UploadResultReturn ==
    /\ upload.pc \in {"result", "raised"}
    /\ file' = IF upload.pc = "result" /\ upload.success
                  /\ BackendDeletes(upload.skip_delete, onedrive_config)
               THEN delete_local_file(upload.gid)
               ELSE file
    /\ upload' = [upload EXCEPT !.pc = "done"]
    /\ UNCHANGED <<service, gateVars, channel_upload, manual, pure, deleting, wiringVars, remote, completed, monVars, refVars,
                   guardVars, cfgVars, coord>>

\* cloud_onedrive.py 311-323: update_progress, run by the event loop for a
\* scheduled report: the message is edited when the report is in state
\* uploading and its total size is known; a failure of the edit is dropped.
update_progress ==
    /\ upload.scheduled # <<>>
    /\ LET report == Head(upload.scheduled)
       IN upload' = [upload EXCEPT
                        !.scheduled = Tail(@),
                        !.edits = IF report.status = "uploading"
                                     /\ report.total_size > 0
                                  THEN Append(@, report) ELSE @]
    /\ UNCHANGED <<service, gateVars, channel_upload, manual, pure, deleting, wiringVars, remoteVars, monVars, refVars,
                   guardVars, cfgVars, coord>>

\* ------------------------------------------------- channel upload retries
\* cloud/telegram_channel.py 15-20: the size limits, in MB, and the retry
\* settings.
STANDARD_LIMIT == 50
LOCAL_API_LIMIT == 2048
MAX_RETRIES == 3
RETRY_DELAY == 5

\* File sizes in MB, on both sides of each limit.
FileSizes == {10, 50, 51, 2048, 2049}
ChannelIds == {"", "@channel"}

\* What one send_document attempt can do: return a message with a document,
\* return one without (reading file_id raises inside the try), or raise.
SendOutcomes == {"document", "no_document", "TimedOut", "NetworkError"}

\* The client's fields (max_size, config.channel_id) and the locals of one
\* upload_file call.
ChannelIdle ==
    [pc |-> "idle", max_size |-> STANDARD_LIMIT, channel_id |-> "",
     exists |-> FALSE, file_size |-> 0,
     attempt |-> 0, log |-> <<>>, slept |-> 0,
     last_error |-> "none", result |-> <<>>]

\* cloud/telegram_channel.py 26-29: max_size.
max_size(is_local_api) == IF is_local_api THEN LOCAL_API_LIMIT ELSE STANDARD_LIMIT

\* cloud/telegram_channel.py 47-58: the prechecks, in the order of the code;
\* "none" when all pass.
Precheck(exists, file_size, channel_id, is_local_api) ==
    IF ~exists THEN "missing"
    ELSE IF file_size > max_size(is_local_api) THEN "over_limit"
    ELSE IF channel_id = "" THEN "no_channel"
    ELSE "none"

\* cloud/telegram_channel.py 79-80: a failed attempt is followed by a sleep
\* unless it was the last one.
SleepsAfterAlways(attempt) == TRUE
SleepsAfter(attempt) == attempt < MAX_RETRIES - 1

\* cloud/telegram_channel.py 39-61: upload_file is called; a failed
\* precheck returns at once, otherwise the first attempt is under way.
\* exists(), stat() and the test of channel_id run without an await between
\* them.
channel_upload_file(exists, file_size, channel_id, is_local_api) ==
    /\ channel_upload.pc \in {"idle", "done"}
    /\ LET failed == Precheck(exists, file_size, channel_id, is_local_api)
           call == [ChannelIdle EXCEPT !.max_size = max_size(is_local_api),
                                       !.channel_id = channel_id,
                                       !.exists = exists,
                                       !.file_size = IF exists THEN file_size ELSE 0]
       IN channel_upload' =
            IF failed # "none"
            THEN [call EXCEPT !.pc = "done", !.result = <<FALSE, failed>>]
            ELSE [call EXCEPT !.pc = "send", !.log = <<"send">>]
    /\ UNCHANGED <<service, gateVars, upload, manual, pure, deleting, wiringVars, remoteVars, monVars, refVars,
                   guardVars, cfgVars, coord>>

\* cloud/telegram_channel.py 61-82: send_document returns or raises.  With a
\* document the call returns (True, file_id).  Anything else is caught:
\* the error is kept, and the loop sleeps and tries again, or, after the
\* last attempt, returns (False, str(last_error)).
ChannelSendReturn(outcome) ==
    /\ channel_upload.pc = "send"
    /\ channel_upload' =
         IF outcome = "document"
         THEN [channel_upload EXCEPT !.pc = "done", !.result = <<TRUE, "file_id">>]
         ELSE IF SleepsAfter(channel_upload.attempt)
         THEN [channel_upload EXCEPT !.pc = "sleep", !.last_error = outcome,
                                     !.log = Append(@, "sleep")]
         ELSE IF channel_upload.attempt + 1 < MAX_RETRIES
         THEN [channel_upload EXCEPT !.pc = "send", !.last_error = outcome,
                                     !.attempt = @ + 1, !.log = Append(@, "send")]
         ELSE [channel_upload EXCEPT !.pc = "done", !.last_error = outcome,
                                     !.result = <<FALSE, outcome>>]
    /\ UNCHANGED <<service, gateVars, upload, manual, pure, deleting, wiringVars, remoteVars, monVars, refVars,
                   guardVars, cfgVars, coord>>

\* cloud/telegram_channel.py 80 and 59-61: asyncio.sleep(RETRY_DELAY) is
\* over; the loop goes on with the next attempt, or, when there is none
\* left, the call returns (False, str(last_error)).
ChannelWake ==
    /\ channel_upload.pc = "sleep"
    /\ channel_upload' =
         IF channel_upload.attempt + 1 < MAX_RETRIES
         THEN [channel_upload EXCEPT !.pc = "send", !.attempt = @ + 1,
                                     !.slept = @ + RETRY_DELAY,
                                     !.log = Append(@, "send")]
         ELSE [channel_upload EXCEPT !.pc = "done", !.slept = @ + RETRY_DELAY,
                                     !.result = <<FALSE, channel_upload.last_error>>]
    /\ UNCHANGED <<service, gateVars, upload, manual, pure, deleting, wiringVars, remoteVars, monVars, refVars,
                   guardVars, cfgVars, coord>>

\* ------------------------------------------------------- the permission gate
\* handlers/__init__.py 55-98: the handlers build_handlers registers, by the
\* method each one calls.
Handlers ==
    {"install", "uninstall", "start_service", "stop_service", "restart_service",
     "status", "view_logs", "clear_logs", "set_secret", "reset_secret",
     "help_command", "menu_command", "add_download", "list_downloads",
     "global_stats", "cloud_command", "handle_text_message",
     "handle_channel_id_input", "handle_auth_callback", "handle_torrent",
     "handle_url_message", "handle_callback"}

\* handlers/__init__.py 55-98: every registered callback is
\* wrap_with_permission(...) of its method.
IsWrappedButCallbacks(h) == h # "handle_callback"
IsWrapped(h) == h \in Handlers

\* Telegram user ids, and the id 0 that Python takes as false.
UserIds == {0, 1, 2}

\* An update: with or without an effective user.
Updates ==
    {[effective_user |-> FALSE, id |-> 0]}
    \cup {[effective_user |-> TRUE, id |-> u] : u \in UserIds}

GateIdle == [pc |-> "idle", handler |-> "none",
             update |-> [effective_user |-> FALSE, id |-> 0], reason |-> "none"]

\* base.py 95-107: _check_permission up to its reply: "granted", or the
\* reason of the refusal.
check_permission(update) ==
    IF allowed_users = {} THEN "unconfigured"
    ELSE LET known == update.effective_user /\ update.id # 0
         IN IF known /\ update.id \in allowed_users THEN "granted" ELSE "unauthorized"

\* handlers/__init__.py 41-51: an update reaches a registered callback.  A
\* wrapped one asks _check_permission first: the body is entered when it
\* grants, otherwise the refusal is being replied.
wrapped(h, update) ==
    /\ gate.pc = "idle"
    /\ LET verdict == IF IsWrapped(h) THEN check_permission(update) ELSE "granted"
       IN gate' = [pc |-> IF verdict = "granted" THEN "body" ELSE "reply",
                   handler |-> h, update |-> update, reason |-> verdict]
    /\ UNCHANGED <<service, upload, channel_upload, allowed_users, manual, pure, deleting,
                   wiringVars, remoteVars, monVars, refVars, guardVars, cfgVars, coord>>

\* base.py 100-101, 106-107 and 169-178: the refusal was sent, could not be
\* sent (the exception leaves wrapped) or had no chat to go to; wrapped
\* returns without calling the handler.
GateReplyReturn ==
    /\ gate.pc = "reply"
    /\ gate' = GateIdle
    /\ UNCHANGED <<service, upload, channel_upload, allowed_users, manual, pure, deleting,
                   wiringVars, remoteVars, monVars, refVars, guardVars, cfgVars, coord>>

\* handlers/__init__.py 49: the handler is running for this update.
InBody(h) == gate.pc = "body" /\ gate.handler = h

\* handlers/__init__.py 49: the handler returned.  handle_callback returns
\* when the deletion it may have started is through.
HandlerReturn ==
    /\ gate.pc = "body"
    /\ deleting.pc \in {"idle", "done"}
    /\ gate' = GateIdle
    /\ UNCHANGED <<service, upload, channel_upload, allowed_users, manual, pure, deleting,
                   wiringVars, remoteVars, monVars, refVars, guardVars, cfgVars, coord>>

\* ------------------------------------------------ the subprocess supervisor
MaxChildren == 3    \* aria2 processes the manager may spawn
MaxHandles == 2     \* constructor calls (base.py 78, app.py 79)

ChildIds == 1..MaxChildren

\* aria2/service.py 267-281: the class attribute _instance and the fields
\* __new__ gives the instance; with them the processes the manager has
\* spawned, an aria2c it has not spawned, and what start() tests: aria2
\* installed, aria2.conf present.
ServiceNone ==
    [instance |-> FALSE, handles |-> 0, process |-> 0, registered_cleanup |-> FALSE,
     child |-> [c \in ChildIds |-> "unborn"], spawned |-> 0,
     installed |-> FALSE, conf |-> FALSE, unmanaged |-> FALSE,
     last |-> "none", raised |-> "none", seq |-> 0]

\* aria2/service.py 321, 344, 381: self._process and self._process.poll() is None.
ProcessAlive(sv) == sv.process # 0 /\ sv.child[sv.process] = "alive"

\* aria2/service.py 273-281: __new__ builds the instance once and returns it
\* ever after.
BuildsInstanceAlways(sv) == TRUE
BuildsInstance(sv) == ~sv.instance

SubprocessServiceManager_new ==
    /\ service.handles < MaxHandles
    /\ service' = IF BuildsInstance(service)
                  THEN [service EXCEPT !.instance = TRUE, !.handles = @ + 1,
                                       !.process = 0, !.registered_cleanup = FALSE]
                  ELSE [service EXCEPT !.handles = @ + 1]
    /\ UNCHANGED <<gateVars, upload, channel_upload, manual, pure, deleting,
                   wiringVars, remoteVars, monVars, refVars, guardVars, cfgVars, coord>>

\* aria2/service.py 317-346: start().  Not installed and no aria2.conf
\* raise; a live managed process returns at once; otherwise the cleanup is
\* registered and a process spawned, unless open or Popen fails; a process
\* that has exited half a second later raises ServiceError.
StartOf(sv, outcome) ==
    IF ~sv.installed THEN [sv EXCEPT !.raised = "NotInstalledError"]
    ELSE IF ProcessAlive(sv) THEN [sv EXCEPT !.raised = "none"]
    ELSE IF ~sv.conf THEN [sv EXCEPT !.raised = "ConfigError"]
    ELSE IF outcome = "spawn_failed"
         THEN [sv EXCEPT !.registered_cleanup = TRUE, !.raised = "OSError"]
    ELSE [sv EXCEPT !.registered_cleanup = TRUE,
                    !.spawned = @ + 1,
                    !.process = sv.spawned + 1,
                    !.child[sv.spawned + 1] = IF outcome = "runs" THEN "alive" ELSE "dead",
                    !.raised = IF outcome = "runs" THEN "none" ELSE "ServiceError"]

\* aria2/service.py 348-370: stop().  A live managed process is terminated,
\* killed if it does not exit in time, and forgotten; otherwise SIGTERM goes
\* to an aria2c that pgrep finds, which exits or not.
StopOf(sv, exits) ==
    IF ProcessAlive(sv)
    THEN [sv EXCEPT !.child[sv.process] = "dead", !.process = 0, !.raised = "none"]
    ELSE [sv EXCEPT !.unmanaged = IF exits THEN FALSE ELSE @, !.raised = "none"]

Called(sv, op) == [sv EXCEPT !.last = op, !.seq = 1 - sv.seq]

service_start(outcome) ==
    /\ service.instance
    /\ service.spawned < MaxChildren
    /\ service' = Called(StartOf(service, outcome), "start")
    /\ UNCHANGED <<gateVars, upload, channel_upload, manual, pure, deleting,
                   wiringVars, remoteVars, monVars, refVars, guardVars, cfgVars, coord>>

service_stop(exits) ==
    /\ service.instance
    /\ service' = Called(StopOf(service, exits), "stop")
    /\ UNCHANGED <<gateVars, upload, channel_upload, manual, pure, deleting,
                   wiringVars, remoteVars, monVars, refVars, guardVars, cfgVars, coord>>

\* aria2/service.py 372-378: restart() is stop(), a sleep and start().
service_restart(exits, outcome) ==
    /\ service.instance
    /\ service.spawned < MaxChildren
    /\ service' = Called(StartOf(StopOf(service, exits), outcome), "restart")
    /\ UNCHANGED <<gateVars, upload, channel_upload, manual, pure, deleting,
                   wiringVars, remoteVars, monVars, refVars, guardVars, cfgVars, coord>>

\* A managed aria2 process exits by itself.
ChildExit(c) ==
    /\ service.child[c] = "alive"
    /\ service' = [service EXCEPT !.child[c] = "dead"]
    /\ UNCHANGED <<gateVars, upload, channel_upload, manual, pure, deleting,
                   wiringVars, remoteVars, monVars, refVars, guardVars, cfgVars, coord>>

InitSide ==
    /\ upload = UploadIdle
    /\ channel_upload = ChannelIdle
    /\ gate = GateIdle

\* base.py 67-93 (__init__) and app_ref.py 10: nothing is running, the guard
\* sets and maps are empty, no bot reference is set.
InitBot ==
    /\ bot_instance = FALSE
    /\ app_bot_instance = FALSE
    /\ completed = [g \in Gids |-> 0]
    /\ file = [g \in Gids |-> "absent"]
    /\ notified_gids = {}
    /\ download_monitors = [g \in Gids |-> 0]
    /\ mon = [m \in MonIds |-> MonIdle]
    /\ notify_calls = [g \in Gids |-> NoCounts]
    /\ notify_ok = [g \in Gids |-> NoCounts]
    /\ auto_refresh_tasks = [k \in Keys |-> 0]
    /\ ref = [r \in RefIds |-> RefIdle]
    /\ auto_uploaded_gids = {}
    /\ channel_uploaded_gids = {}
    /\ telegram_channel = "none"
    /\ coord = [c \in CoordIds |-> CoordIdle]
    /\ manual = [b \in ManualBackends |-> ManualIdle]
    /\ deleting = DeleteIdle
    /\ InitSide

\* config.py 76-85: ALLOWED_USERS names one user.
OneUser == {1}

InitCore ==
    /\ InitBot
    /\ allowed_users = OneUser
    /\ service = ServiceNone

\* The monitors alone, as the spec's test of N concurrent monitors runs
\* them: the task exists at the daemon, monitors are entered directly.
InitMonitors ==
    /\ InitCore
    /\ pure = NoCall
    /\ remote \in [Gids -> {"waiting", "active"}]
    /\ onedrive_config = NoBackend
    /\ telegram_channel_config = NoBackend

NextMonitors ==
    \/ post_init
    \/ set_bot_instance
    \/ \E g \in Gids : RemoteStep(g)
    \/ \E g \in Gids, m \in MonIds : monitor_download(g, m)
    \/ \E m \in MonIds : MonitorPollReturn(m)
    \/ \E m \in MonIds, ok \in BOOLEAN : MonitorNotifyReturn(m, ok)
    \/ \E m \in MonIds : MonitorWake(m)

SpecMonitors == InitMonitors /\ [][NextMonitors]_vars

\* A task added by URL and the monitor add_download starts for it.
InitDownload ==
    /\ InitCore
    /\ pure = NoCall
    /\ remote = [g \in Gids |-> "none"]
    /\ onedrive_config = NoBackend
    /\ telegram_channel_config = NoBackend

NextDownload ==
    \/ post_init
    \/ set_bot_instance
    \/ \E g \in Gids, ok \in BOOLEAN : add_download(g, ok)
    \/ \E g \in Gids : RemoteStep(g)
    \/ \E m \in MonIds : MonitorPollReturn(m)
    \/ \E m \in MonIds, ok \in BOOLEAN : MonitorNotifyReturn(m, ok)
    \/ \E m \in MonIds : MonitorWake(m)

SpecDownload == InitDownload /\ [][NextDownload]_vars

\* The refreshers and the callbacks that start and stop them, up to the
\* hand-off that schedules the coordinator.
InitRefresh ==
    /\ InitCore
    /\ pure = NoCall
    /\ remote \in [Gids -> {"waiting", "active"}]
    /\ onedrive_config \in {NoBackend, KeepFile}
    /\ telegram_channel_config = NoBackend

NextRefresh ==
    \/ \E g \in Gids : RemoteStep(g)
    \/ \E g \in Gids : RemoteProgress(g)
    \/ \E k \in Keys, g \in Gids : handle_detail_callback(k, g)
    \/ \E k \in Keys, g \in Gids : handle_pause_callback(k, g)
    \/ \E k \in Keys, g \in Gids : handle_resume_callback(k, g)
    \/ \E k \in Keys : handle_other_callback(k)
    \/ \E r \in RefIds : RefresherPollReturn(r)
    \/ \E r \in RefIds, ok \in BOOLEAN : RefresherEditReturn(r, ok)
    \/ \E r \in RefIds : RefresherWake(r)
    \/ \E r \in RefIds : RefresherCancelled(r)

SpecRefresh == InitRefresh /\ [][NextRefresh]_vars

\* The upload pipeline: a downloading task whose detail view is opened, the
\* refresher that sees it complete, the coordinator and the two uploads.
Init ==
    /\ InitCore
    /\ pure = NoCall
    /\ remote = [g \in Gids |-> "active"]
    /\ onedrive_config \in Backends
    /\ telegram_channel_config \in Backends

Next ==
    \/ set_bot_instance
    \/ \E g \in Gids : RemoteStep(g)
    \/ \E k \in Keys, g \in Gids : handle_detail_callback(k, g)
    \/ \E r \in RefIds : RefresherPollReturn(r)
    \/ \E r \in RefIds, ok \in BOOLEAN : RefresherEditReturn(r, ok)
    \/ \E r \in RefIds : RefresherWake(r)
    \/ \E r \in RefIds : RefresherCancelled(r)
    \/ \E c \in CoordIds : CoordStart(c)
    \/ \E c \in CoordIds, ok \in BOOLEAN : CoordAuthReturn(c, ok)
    \/ \E c \in CoordIds, ok \in BOOLEAN : CoordWarnReturn(c, ok)
    \/ \E c \in CoordIds : OdStart(c)
    \/ \E c \in CoordIds, ok \in BOOLEAN : OdNoticeReturn(c, ok)
    \/ \E c \in CoordIds, ok \in BOOLEAN : OdXferReturn(c, ok)
    \/ \E c \in CoordIds, ok \in BOOLEAN : OdReportReturn(c, ok)
    \/ \E c \in CoordIds : TgStart(c)
    \/ \E c \in CoordIds, ok \in BOOLEAN : TgNoticeReturn(c, ok)
    \/ \E c \in CoordIds, ok \in BOOLEAN : TgXferReturn(c, ok)
    \/ \E c \in CoordIds, ok \in BOOLEAN : TgReportReturn(c, ok)
    \/ \E c \in CoordIds : CoordGatherReturn(c)
    \/ \E c \in CoordIds, ok \in BOOLEAN : CoordFinalReturn(c, ok)

Spec == Init /\ [][Next]_vars

\* The pure helpers: a pending call with an argument drawn from the bounded
\* input sets, and the helper applied to it.
PendingCalls ==
    {[fn |-> "progress", pc |-> "call", arg |-> <<c, t>>, out |-> <<>>] :
        c \in Lengths, t \in Lengths}
    \cup {[fn |-> "_format_size", pc |-> "call", arg |-> d, out |-> <<>>] :
        d \in Sizes}
    \cup {[fn |-> "_validate_download_url", pc |-> "call", arg |-> u, out |-> <<>>] :
        u \in Urls}
    \cup {[fn |-> "_call", pc |-> "call", arg |-> r, out |-> <<>>] : r \in Replies}
    \cup {[fn |-> "progress_bar", pc |-> "call", arg |-> <<c, t>>, out |-> <<>>] :
        c \in Lengths, t \in Lengths}

InitPure ==
    /\ InitCore
    /\ pure \in PendingCalls
    /\ remote = [g \in Gids |-> "none"]
    /\ onedrive_config = NoBackend
    /\ telegram_channel_config = NoBackend

NextPure ==
    \/ progress_call
    \/ format_size_call
    \/ validate_download_url_call
    \/ rpc_call_call
    \/ progress_bar_call

SpecPure == InitPure /\ [][NextPure]_vars

\* Uploads requested by hand for a task that is downloading or complete;
\* a complete task may already have been handed to the automatic pipeline
\* (both upload guard sets hold it) and announced (the notified set).
InitManual ==
    /\ bot_instance = FALSE
    /\ app_bot_instance = FALSE
    /\ completed = [g \in Gids |-> 0]
    /\ download_monitors = [g \in Gids |-> 0]
    /\ mon = [m \in MonIds |-> MonIdle]
    /\ notify_calls = [g \in Gids |-> NoCounts]
    /\ notify_ok = [g \in Gids |-> NoCounts]
    /\ auto_refresh_tasks = [k \in Keys |-> 0]
    /\ ref = [r \in RefIds |-> RefIdle]
    /\ telegram_channel = "none"
    /\ coord = [c \in CoordIds |-> CoordIdle]
    /\ manual = [b \in ManualBackends |-> ManualIdle]
    /\ deleting = DeleteIdle
    /\ pure = NoCall
    /\ \E st \in {"active", "complete"}, f \in {"small", "big"} :
         /\ remote = [g \in Gids |-> st]
         /\ file = [g \in Gids |-> IF st = "complete" THEN f ELSE "absent"]
         /\ \E marked \in SUBSET Gids, told \in SUBSET Gids :
              /\ st = "active" => marked = {} /\ told = {}
              /\ auto_uploaded_gids = marked
              /\ channel_uploaded_gids = marked
              /\ notified_gids = told
    /\ onedrive_config \in Backends
    /\ telegram_channel_config \in Backends
    /\ InitSide
    /\ allowed_users = OneUser
    /\ service = ServiceNone

NextManual ==
    \/ \E g \in Gids : RemoteStep(g)
    \/ \E g \in Gids : upload_to_cloud(g)
    \/ \E authed \in BOOLEAN : ManualAuthReturn(authed)
    \/ \E g \in Gids : upload_to_channel_manual(g)
    \/ \E b \in ManualBackends : ManualStatusReturn(b)
    \/ \E b \in ManualBackends, ok \in BOOLEAN : ManualNoticeReturn(b, ok)
    \/ \E b \in ManualBackends, success \in BOOLEAN : ManualXferReturn(b, success)

SpecManual == InitManual /\ [][NextManual]_vars

\* The guard sets under every operation that runs beside them, for two
\* tasks of which each is downloading or complete: detail views with their
\* refreshers and the start of the coordinator, then up to MaxRequests further
\* requests (a monitor, an upload by hand, a confirmed deletion), each made
\* once what was started before has settled, and the settings buttons in
\* between.  The buttons other than the detail view are pressed on messages
\* that show no task detail, so that no refresher is registered under their
\* key.  Uploads by hand are asked for g1, the deletion (with its files) for
\* g2, and the settings flipped are OneDrive's auto_upload and the channel's
\* enabled.
TwoGids == {"g1", "g2"}
MaxRequests == 2

InitGuards ==
    /\ bot_instance = FALSE
    /\ app_bot_instance = FALSE
    /\ remote \in [TwoGids -> {"active", "complete"}]
    /\ completed = [g \in TwoGids |-> 0]
    /\ file = [g \in TwoGids |-> "small"]
    /\ notified_gids = {}
    /\ download_monitors = [g \in TwoGids |-> 0]
    /\ mon = [m \in MonIds |-> MonIdle]
    /\ notify_calls = [g \in TwoGids |-> NoCounts]
    /\ notify_ok = [g \in TwoGids |-> NoCounts]
    /\ auto_refresh_tasks = [k \in Keys |-> 0]
    /\ ref = [r \in RefIds |-> RefIdle]
    /\ auto_uploaded_gids = {}
    /\ channel_uploaded_gids = {}
    /\ onedrive_config = KeepFile
    /\ telegram_channel_config = NoBackend
    /\ telegram_channel = "none"
    /\ coord = [c \in CoordIds |-> CoordIdle]
    /\ manual = [b \in ManualBackends |-> ManualIdle]
    /\ pure = NoCall
    /\ deleting = DeleteIdle
    /\ InitSide
    /\ allowed_users = OneUser
    /\ service = ServiceNone

\* The requests made so far that are counted against MaxRequests.
Requests ==
    Cardinality({m \in MonIds : mon[m].pc # "idle"})
    + manual["onedrive"].runs + manual["telegram"].runs
    + (IF deleting.pc = "idle" THEN 0 ELSE 1)

\* Nothing that was requested is still in progress.
Quiet ==
    /\ \A m \in MonIds : mon[m].pc \in {"idle", "done"}
    /\ \A b \in ManualBackends : manual[b].pc \in {"idle", "done"}
    /\ deleting.pc \in {"idle", "done"}
    /\ \A r \in RefIds : ~RefLive(r)

NextGuards ==
    \/ Quiet /\ Requests < MaxRequests /\ \E g \in TwoGids, m \in MonIds : monitor_download(g, m)
    \/ \E m \in MonIds : MonitorPollReturn(m)
    \/ \E m \in MonIds : MonitorWake(m)
    \/ Requests = 0 /\ \E k \in Keys, g \in TwoGids : handle_detail_callback(k, g)
    \/ \E r \in RefIds : RefresherPollReturn(r)
    \/ \E r \in RefIds, ok \in BOOLEAN : RefresherEditReturn(r, ok)
    \/ \E r \in RefIds : RefresherWake(r)
    \/ \E r \in RefIds : RefresherCancelled(r)
    \/ \E c \in CoordIds : CoordStart(c)
    \/ Quiet /\ Requests < MaxRequests /\ \E g \in {"g1"} : upload_to_cloud(g)
    \/ \E authed \in BOOLEAN : ManualAuthReturn(authed)
    \/ Quiet /\ Requests < MaxRequests /\ \E g \in {"g1"} : upload_to_channel_manual(g)
    \/ \E b \in ManualBackends : ManualStatusReturn(b)
    \/ \E b \in ManualBackends, ok \in BOOLEAN : ManualNoticeReturn(b, ok)
    \/ \E b \in ManualBackends, success \in BOOLEAN : ManualXferReturn(b, success)
    \/ Quiet /\ Requests < MaxRequests
       /\ \E g \in {"g2"}, delete_file \in {TRUE} : handle_confirm_delete_callback(g, delete_file)
    \/ DeleteStatusReturn
    \/ \E ok \in BOOLEAN : DeleteRemoveReturn(ok)
    \/ \E ok \in BOOLEAN : DeleteForceReturn(ok)
    \/ \E ok \in BOOLEAN : DeletePurgeReturn(ok)
    \/ DeleteFilesReturn
    \/ DeleteRenderReturn
    \/ Quiet /\ \E setting \in {"auto_upload"} : handle_onedrive_toggle(setting)
    \/ Quiet /\ \E setting \in {"enabled"} : handle_channel_toggle(setting)

SpecGuards == InitGuards /\ [][NextGuards]_vars

\* The two polling loops side by side: tasks are added and their monitors
\* started through the registry, start requests are repeated, detail views
\* are opened, refreshed and left; no upload backend is configured.  The
\* event loop resumes a task once the call it awaits has returned, and the
\* status query (rpc.py 72-104, a request with a timeout), the sleeps and
\* the Telegram calls all return or raise: every step of a loop that is
\* enabled is eventually taken.  Nothing is assumed of the daemon or of the
\* user.  The detail view is opened MaxLoopRefreshers times at most.
MaxLoopRefreshers == 2

InitLoops ==
    /\ InitCore
    /\ pure = NoCall
    /\ remote = [g \in Gids |-> "none"]
    /\ onedrive_config = NoBackend
    /\ telegram_channel_config = NoBackend

NextLoops ==
    \/ set_bot_instance
    \/ \E g \in Gids, ok \in BOOLEAN : add_download(g, ok)
    \/ \E g \in Gids : start_download_monitor_again(g)
    \/ \E g \in Gids : RemoteStep(g)
    \/ \E m \in MonIds : MonitorPollReturn(m)
    \/ \E m \in MonIds, ok \in BOOLEAN : MonitorNotifyReturn(m, ok)
    \/ \E m \in MonIds : MonitorWake(m)
    \/ /\ FreeRefresher \in 1..MaxLoopRefreshers
       /\ \E k \in Keys, g \in Gids : handle_detail_callback(k, g)
    \/ \E k \in Keys : handle_other_callback(k)
    \/ \E r \in RefIds : RefresherPollReturn(r)
    \/ \E r \in RefIds, ok \in BOOLEAN : RefresherEditReturn(r, ok)
    \/ \E r \in RefIds : RefresherWake(r)
    \/ \E r \in RefIds : RefresherCancelled(r)

LoopsResumed ==
    /\ \A m \in MonIds :
          /\ WF_vars(MonitorPollReturn(m))
          /\ WF_vars(\E ok \in BOOLEAN : MonitorNotifyReturn(m, ok))
          /\ WF_vars(MonitorWake(m))
    /\ \A r \in RefIds :
          /\ WF_vars(RefresherPollReturn(r))
          /\ WF_vars(\E ok \in BOOLEAN : RefresherEditReturn(r, ok))
          /\ WF_vars(RefresherWake(r))
          /\ WF_vars(RefresherCancelled(r))

SpecLoops == InitLoops /\ [][NextLoops]_vars /\ LoopsResumed

\* Two tasks the daemon goes on downloading, watched side by side: a monitor
\* is started for each through the registry, and the detail view of one
\* message is opened, refreshed, left and opened again for either task.  Any
\* status query may fail (daemon unreachable, timeout).  No bot reference is
\* set and no upload backend is configured.
InitIsolation ==
    /\ bot_instance = FALSE
    /\ app_bot_instance = FALSE
    /\ remote = [g \in TwoGids |-> "active"]
    /\ completed = [g \in TwoGids |-> 0]
    /\ file = [g \in TwoGids |-> "absent"]
    /\ notified_gids = {}
    /\ download_monitors = [g \in TwoGids |-> 0]
    /\ mon = [m \in MonIds |-> MonIdle]
    /\ notify_calls = [g \in TwoGids |-> NoCounts]
    /\ notify_ok = [g \in TwoGids |-> NoCounts]
    /\ auto_refresh_tasks = [k \in Keys |-> 0]
    /\ ref = [r \in RefIds |-> RefIdle]
    /\ auto_uploaded_gids = {}
    /\ channel_uploaded_gids = {}
    /\ onedrive_config = NoBackend
    /\ telegram_channel_config = NoBackend
    /\ telegram_channel = "none"
    /\ coord = [c \in CoordIds |-> CoordIdle]
    /\ manual = [b \in ManualBackends |-> ManualIdle]
    /\ pure = NoCall
    /\ deleting = DeleteIdle
    /\ InitSide
    /\ allowed_users = OneUser
    /\ service = ServiceNone

NextIsolation ==
    \/ \E g \in TwoGids : start_download_monitor_again(g)
    \/ \E m \in MonIds : MonitorPollReturn(m)
    \/ \E m \in MonIds : MonitorWake(m)
    \/ \E k \in Keys, g \in TwoGids : handle_detail_callback(k, g)
    \/ \E k \in Keys : handle_other_callback(k)
    \/ \E r \in RefIds : RefresherPollReturn(r)
    \/ \E r \in RefIds, ok \in BOOLEAN : RefresherEditReturn(r, ok)
    \/ \E r \in RefIds : RefresherWake(r)
    \/ \E r \in RefIds : RefresherCancelled(r)

SpecIsolation == InitIsolation /\ [][NextIsolation]_vars

\* A task is deleted from its detail view, with or without its files, while
\* the daemon goes on with it; each of the handler's calls may fail.
InitDelete ==
    /\ InitCore
    /\ pure = NoCall
    /\ remote \in [Gids -> LiveStatus]
    /\ onedrive_config = NoBackend
    /\ telegram_channel_config = NoBackend

NextDelete ==
    \/ \E g \in Gids : RemoteStep(g)
    \/ \E g \in Gids, delete_file \in BOOLEAN : handle_confirm_delete_callback(g, delete_file)
    \/ DeleteStatusReturn
    \/ \E ok \in BOOLEAN : DeleteRemoveReturn(ok)
    \/ \E ok \in BOOLEAN : DeleteForceReturn(ok)
    \/ \E ok \in BOOLEAN : DeletePurgeReturn(ok)
    \/ DeleteFilesReturn
    \/ DeleteRenderReturn

SpecDelete == InitDelete /\ [][NextDelete]_vars

\* A task whose status the bot does not know, until the daemon reports it
\* as active: monitors are started for it and its detail view is opened, at
\* most MaxLoopRefreshers times.
InitUnknown ==
    /\ InitCore
    /\ pure = NoCall
    /\ remote = [g \in Gids |-> "unknown"]
    /\ onedrive_config = KeepFile
    /\ telegram_channel_config = NoBackend

NextUnknown ==
    \/ set_bot_instance
    \/ \E g \in Gids : RemoteStep(g)
    \/ \E g \in Gids : start_download_monitor_again(g)
    \/ \E m \in MonIds : MonitorPollReturn(m)
    \/ \E m \in MonIds, ok \in BOOLEAN : MonitorNotifyReturn(m, ok)
    \/ \E m \in MonIds : MonitorWake(m)
    \/ /\ FreeRefresher \in 1..MaxLoopRefreshers
       /\ \E k \in Keys, g \in Gids : handle_detail_callback(k, g)
    \/ \E r \in RefIds : RefresherPollReturn(r)
    \/ \E r \in RefIds, ok \in BOOLEAN : RefresherEditReturn(r, ok)
    \/ \E r \in RefIds : RefresherWake(r)
    \/ \E r \in RefIds : RefresherCancelled(r)

SpecUnknown == InitUnknown /\ [][NextUnknown]_vars

\* ------------------------------------------------------------- properties
\* A monitor loop of g that has returned after polling `why`.
MonitorReturned(m, g, why) ==
    mon[m].pc = "done" /\ mon[m].gid = g /\ mon[m].exit = why

MonitorRunning(g) == \E m \in MonIds : mon[m].gid = g /\ mon[m].pc # "done"

\* C1: when the monitors of g have all returned and one of them polled
\* complete, exactly one completion notification for g was sent to the sink.
C1_ExactlyOneCompletionNotification ==
    \A g \in Gids :
        (~MonitorRunning(g) /\ \E m \in MonIds : MonitorReturned(m, g, "complete"))
            => notify_calls[g]["complete"] = 1

\* C6: a task added by URL whose monitor returned on complete got exactly
\* one completion notification (the first half of the end-to-end scenario).
C6_AddedTaskNotifiedOnce ==
    \A g \in Gids, m \in MonIds :
        MonitorReturned(m, g, "complete")
            => notify_calls[g]["complete"] = 1 /\ notify_calls[g]["error"] = 0

\* C7: a monitor that returned because it polled complete or error has been
\* followed by a notification for its task.
C7_TerminalStatusNotified ==
    \A m \in MonIds :
        (mon[m].pc = "done" /\ mon[m].exit \in {"complete", "error"})
            => notify_calls[mon[m].gid]["complete"]
                 + notify_calls[mon[m].gid]["error"] >= 1

\* Coordinator tasks created for g by the refreshers' hand-off.
Scheduled(g) == {c \in CoordIds : coord[c].pc # "idle" /\ coord[c].gid = g}

\* Refresher loops of g that returned after polling complete.
SawComplete(g) ==
    {r \in RefIds : ref[r].pc = "done" /\ ref[r].gid = g /\ ref[r].status = "complete"}

Superseded(r) ==
    /\ RefLive(r)
    /\ \E q \in RefIds : q > r /\ ref[q].pc # "idle" /\ ref[q].key = ref[r].key

\* C4: a refresher loop that has been superseded on its surface is
\* cancelled, so it polls and renders no more.
C4_SupersededIsCancelled ==
    \A r \in RefIds : Superseded(r) => ref[r].pc = "cancelled"

\* C5: at most one live refresher loop that is not cancelled per surface key.
C5_OneLiveRefresherPerKey ==
    \A k \in Keys :
        Cardinality({r \in RefIds : RefRunning(r) /\ ref[r].key = k}) <= 1

\* A coordinator that ran in coordinated mode and has returned.
CoordinatedDone(c) == coord[c].pc = "done" /\ coord[c].mode = "coordinated"

C8_DeleteOnlyIfBothSucceeded ==
    \A c \in CoordIds :
        (coord[c].mode = "coordinated" /\ coord[c].deleted)
            => /\ coord[c].od = "T"
               /\ (coord[c].tg = "T" \/ ~coord[c].size_ok)

\* C9: a coordinator that returned in independent mode has started the
\* automatic upload of every backend that is enabled with auto-upload.
C9_IndependentUploadsStarted ==
    \A c \in CoordIds :
        (coord[c].pc = "done" /\ coord[c].mode = "independent")
            => /\ need_onedrive => coord[c].trig_od
               /\ need_telegram => coord[c].trig_tg

\* C10: a coordinated run on a file over the channel limit has sent the
\* warning and not run the channel upload, and the file is deleted when
\* the OneDrive upload succeeded and kept when it failed.
C10_SizeSkipIsNotFailure ==
    \A c \in CoordIds :
        (CoordinatedDone(c) /\ ~coord[c].size_ok)
            => /\ coord[c].warned
               /\ coord[c].tg = "none"
               /\ coord[c].od = "T" => file[coord[c].gid] = "absent"
               /\ coord[c].od = "F" => file[coord[c].gid] # "absent"


\* C11: a coordinator invocation that took a task on (it did not leave the
\* uploads to the independent triggers) returns without raising and after
\* a final message to the user.
C11_CoordinatorAlwaysReports ==
    \A c \in CoordIds :
        (coord[c].pc = "done" /\ coord[c].mode # "independent")
            => coord[c].exit = "reported"

\* C13: a refresher loop issues edit_text after a poll only when the text it
\* rendered differs from the text of its last successful edit.
C13_RenderOnlyOnChange ==
    [][\A r \in RefIds :
          (ref[r].pc = "poll" /\ ref'[r].pc = "edit") => ref'[r].text # ref[r].last]_vars

\* The only refresher ever started polled a task that stayed waiting twice:
\* the first poll was rendered, the second was not and the loop sleeps.
C13_Witness ==
    \E g \in Gids :
        /\ remote[g] = "waiting"
        /\ ref[1].pc = "sleep" /\ ref[1].gid = g /\ ref[1].polls = 2
        /\ ref[1].last = RenderText("waiting", 0)
        /\ \A r \in RefIds \ {1} : ref[r].pc = "idle"

\* C17: a monitor that stops on a failed status query or on status removed
\* sends no notification and leaves the notified set as it was.
C17_SilentStop ==
    [][\A m \in MonIds :
          (mon[m].pc # "done" /\ mon'[m].pc = "done"
              /\ mon'[m].exit \in {"rpcerror", "removed"})
            => UNCHANGED <<notified_gids, notify_calls>>]_vars

C17_Witness ==
    \E m \in MonIds :
        /\ mon[m].pc = "done" /\ mon[m].exit \in {"rpcerror", "removed"}
        /\ mon[m].gid \notin notified_gids
        /\ notify_calls[mon[m].gid] = NoCounts

\* C18: the step that schedules a coordinator for g is the step that finds
\* g outside the auto-uploaded set, and it leaves g inside both upload guard
\* sets: check, mark and scheduling are one step.
C18_GuardBeforeSchedule ==
    [][\A c \in CoordIds :
          (coord[c].pc = "idle" /\ coord'[c].pc # "idle")
            => /\ coord'[c].gid \notin auto_uploaded_gids
               /\ coord'[c].gid \in auto_uploaded_gids'
               /\ coord'[c].gid \in channel_uploaded_gids']_vars

C18_Witness ==
    \E c \in CoordIds :
        /\ coord[c].pc = "start"
        /\ coord[c].gid \in auto_uploaded_gids \cap channel_uploaded_gids

\* C20: every refresher loop that is running (not cancelled) is the one
\* registered under its surface key.
C20_RunningIsRegistered ==
    \A r \in RefIds : RefRunning(r) => auto_refresh_tasks[ref[r].key] = r

\* C12 (as amended): an upload requested by hand is refused after the status
\* query only for what the query and the disk say (error answer, task not
\* complete, file missing, file over the channel limit), never for the guard
\* sets; no step of it changes the notified, auto-uploaded or
\* channel-uploaded set; and the step that ends a transfer removes the file
\* exactly when the transfer succeeded and the backend's own
\* delete_after_upload flag is set.
ManualStep(b) == manual'[b] # manual[b]

ManualOwnFlag(b) ==
    IF b = "onedrive" THEN onedrive_config.delete_after_upload
    ELSE telegram_channel_config.delete_after_upload

C12_ManualFrame(b) ==
    /\ ManualStep(b) =>
         UNCHANGED <<notified_gids, auto_uploaded_gids, channel_uploaded_gids>>
    /\ (manual[b].pc = "xfer" /\ manual'[b].pc = "done") =>
         file' = IF manual'[b].exit = "success" /\ ManualOwnFlag(b)
                 THEN [file EXCEPT ![manual[b].gid] = "absent"]
                 ELSE file

hostname(netloc) ==
    LET ats == {i \in 1..Len(netloc) : netloc[i] = "@"}
        hostport == IF ats = {} THEN netloc
                    ELSE SubSeq(netloc, Min({-i : i \in ats}) * (-1) + 1, Len(netloc))
        colon == Find(hostport, {":"}, 1)
    IN IF colon = 0 THEN hostport ELSE SubSeq(hostport, 1, colon - 1)

C14_ValidationDecision ==
    (pure.fn = "_validate_download_url" /\ pure.pc = "return") =>
        LET url == pure.arg
            parsed == urlparse(url)
            host == hostname(parsed.netloc)
        IN IF Len(url) > MaxUrlLength THEN ~pure.out.ok /\ pure.out.reason # ""
           ELSE IF StartsWith(url, Magnet) THEN pure.out.ok
           ELSE /\ pure.out.ok <=> (parsed.scheme \in {Http, Https} /\ host # <<>>)
                /\ parsed.scheme \notin {Http, Https} =>
                     /\ pure.out.reason = "unsupported scheme"
                     /\ pure.out.scheme = IF parsed.scheme = <<>> THEN NoScheme
                                          ELSE parsed.scheme
                /\ (parsed.scheme \in {Http, Https} /\ host = <<>>) =>
                     pure.out.reason # ""

\* C15: progress is 0 when total_length is 0, with no division, and is
\* completed_length / total_length * 100 otherwise.
C15_Progress ==
    (pure.fn = "progress" /\ pure.pc = "return") =>
        LET completed_length == pure.arg[1]
            total_length == pure.arg[2]
        IN /\ pure.out.den # 0
           /\ total_length = 0 => pure.out = ZeroPercent
           /\ total_length # 0 =>
                pure.out.num * total_length = completed_length * 100 * pure.out.den

\* C15, witness: a snapshot with total_length 0 and completed_length above 0
\* was given progress 0.
C15_Witness ==
    /\ pure.fn = "progress" /\ pure.pc = "return"
    /\ pure.arg[2] = 0 /\ pure.arg[1] > 0
    /\ pure.out = ZeroPercent

\* C16: _format_size writes a byte count with one decimal in the first of
\* B, KB, MB, GB in which the value is below 1024, in TB when there is none;
\* 0 is "0.0B", 1024 "1.0KB", 1536 "1.5KB" and 1073741824 "1.0GB".
TopDigit(digits) ==
    LET used == {i \in 1..Len(digits) : digits[i] # 0}
    IN IF used = {} THEN 1 ELSE -Min({-i : i \in used})

UnitOf(digits) ==
    LET top == TopDigit(digits)
    IN IF top = 1 THEN "B" ELSE IF top = 2 THEN "KB" ELSE IF top = 3 THEN "MB"
       ELSE IF top = 4 THEN "GB" ELSE "TB"

Bytes(low, high) == [i \in 1..MaxDigits |-> IF i = 1 THEN low ELSE IF i = 2 THEN high ELSE 0]

Text(whole, tenth, unit) == [number |-> [whole |-> whole, tenth |-> tenth], unit |-> unit]

\* Twice the distance, in twentieths of the unit, between the value and the
\* number written is at most one twentieth: the number is a nearest tenth.
NearestTenth(digits, out) ==
    LET point == IF out.unit = "B" THEN 0 ELSE IF out.unit = "KB" THEN 1
                 ELSE IF out.unit = "MB" THEN 2 ELSE IF out.unit = "GB" THEN 3 ELSE 4
        size == [digits |-> digits, point |-> point]
        half == TimesFraction(size, 20, 1, 0, FALSE)
        low == 20 * WholePart(size, point + 1) + half.whole
        written == 2 * (10 * out.number.whole + out.number.tenth)
    IN /\ out.number.tenth \in 0..9
       /\ written <= low + 1
       /\ written >= low - 1 + (IF half.rest THEN 1 ELSE 0)

C16_FormatSize ==
    (pure.fn = "_format_size" /\ pure.pc = "return") =>
        /\ pure.out.unit = UnitOf(pure.arg)
        /\ NearestTenth(pure.arg, pure.out)
        /\ pure.arg = Bytes(0, 0) => pure.out = Text(0, 0, "B")
        /\ pure.arg = Bytes(0, 1) => pure.out = Text(1, 0, "KB")
        /\ pure.arg = Bytes(512, 1) => pure.out = Text(1, 5, "KB")
        /\ (\A i \in 1..MaxDigits : pure.arg[i] = IF i = 4 THEN 1 ELSE 0) =>
               pure.out = Text(1, 0, "GB")

\* C16, witness: 1536 bytes were written as "1.5KB".
C16_Witness ==
    /\ pure.fn = "_format_size" /\ pure.pc = "return"
    /\ pure.arg = Bytes(512, 1)
    /\ pure.out = Text(1, 5, "KB")

\* C19: no step of any operation removes a task id from the notified set,
\* the auto-uploaded set or the channel-uploaded set.
C19_GuardSetsAppendOnly ==
    [][/\ notified_gids \subseteq notified_gids'
       /\ auto_uploaded_gids \subseteq auto_uploaded_gids'
       /\ channel_uploaded_gids \subseteq channel_uploaded_gids']_vars

\* C19, witness: both tasks were handed to the uploads one after the other,
\* one of them was announced by a monitor afterwards, and a confirmed
\* deletion has run to its end since.
C19_Witness ==
    /\ auto_uploaded_gids = TwoGids
    /\ channel_uploaded_gids = TwoGids
    /\ notified_gids # {}
    /\ deleting.pc = "done"

\* C21: a callback whose action is none of detail, refresh, pause and
\* resume stops the refresh of its message.  Such a callback leaves the
\* refresher map without an entry for the key (and changes nothing when
\* there was none), so in every state without an entry for a key no
\* refresher loop of that key is still running towards its next edit.
C21_UnregisteredMeansStopped ==
    \A k \in Keys :
        auto_refresh_tasks[k] = 0 =>
            \A r \in RefIds : ~(RefRunning(r) /\ ref[r].key = k)

\* A refresher that has stopped: returned, or cancelled and not yet resumed
\* (it runs nothing but its finally block from then on).
RefStopped(r) == ref[r].pc \in {"cancelled", "done"}

\* The status a loop is looking at: the answer of the query it waits for,
\* or the one it is rendering.
RefObserved(r) ==
    IF ref[r].pc = "poll" THEN remote[ref[r].gid] ELSE ref[r].status

\* A step in which loop r leaves Running without a failed edit_text: it
\* returns from the status query with a terminal status or RpcError, from
\* edit_text with a terminal status rendered, or from its last sleep; or it
\* is cancelled through the entry of its key.
RefStopsAsSpecified(r) ==
    \/ /\ ref[r].pc = "poll" /\ ref'[r].pc = "done"
       /\ ref'[r].exit = "complete" => RefObserved(r) = "complete"
    \/ /\ ref[r].pc = "edit" /\ ref'[r].pc = "done"
       /\ RefObserved(r) \in TerminalStatus
       /\ ref'[r].exit = "complete" => RefObserved(r) = "complete"
    \/ /\ ref[r].pc = "sleep" /\ ref'[r].pc = "done"
       /\ ref[r].polls = MaxRefreshPolls
       /\ ref'[r].exit = "other"
    \/ /\ ref'[r].pc = "cancelled"
       /\ auto_refresh_tasks[ref[r].key] = r
       /\ auto_refresh_tasks'[ref[r].key] # r

\* A step in which edit_text raised: the loop returns whatever status it
\* was rendering, and not through the branch of a complete task.
RefStopsOnEditFailure(r) ==
    /\ ref[r].pc = "edit" /\ ref'[r].pc = "done"
    /\ ref'[r].exit = "other"

\* Stopped is terminal: a stopped loop never waits for a status query, an
\* edit or a sleep again, and counts no further poll.
RefStoppedIsTerminal(r) ==
    RefStopped(r) => (RefStopped(r))' /\ ref'[r].polls = 0 /\ ref'[r].key = ref[r].key

\* C22, as the spec states it: a refresher leaves Running only for (a) a
\* terminal status observed, (b) the cap of polls, (c) a failed remote call
\* or (d) being superseded or cancelled for its key, and Stopped is terminal.
C22_FourReasons ==
    [][\A r \in RefIds :
         /\ RefStoppedIsTerminal(r)
         /\ (RefRunning(r) /\ ~(RefRunning(r))') => RefStopsAsSpecified(r)]_vars

\* C22, amended: a refresher leaves Running only for one of the four
\* reasons above or (e) because edit_text raised while it rendered a changed
\* text; Stopped is terminal.
C22_FiveReasons ==
    [][\A r \in RefIds :
         /\ RefStoppedIsTerminal(r)
         /\ (RefRunning(r) /\ ~(RefRunning(r))') =>
                (RefStopsAsSpecified(r) \/ RefStopsOnEditFailure(r))]_vars

\* C22, witness: one loop has returned and another one, superseded, has been
\* cancelled and not resumed yet, while a third one runs.
C22_Witness ==
    \E r, q, p \in RefIds :
        /\ ref[r].pc = "done"
        /\ ref[q].pc = "cancelled"
        /\ RefRunning(p)

\* A monitor loop that has been entered and has not returned.
MonRunning(m) == mon[m].pc \in {"poll", "notify", "sleep"}

\* C23: every monitor loop ends after at most MaxMonitorPolls polls (17280
\* in the code) and every refresher loop after at most MaxRefreshPolls (60),
\* whatever the daemon answers; a monitor that leaves its last sleep returns
\* without marking the task and without a notification.
C23_BoundedPolling ==
    /\ [][/\ \A m \in MonIds :
               /\ mon'[m].polls <= MaxMonitorPolls
               /\ (mon[m].pc = "sleep" /\ mon'[m].pc = "done") =>
                      /\ mon[m].polls = MaxMonitorPolls
                      /\ mon'[m].exit = "cap"
                      /\ notified_gids' = notified_gids
                      /\ notify_calls' = notify_calls
          /\ \A r \in RefIds : ref'[r].polls <= MaxRefreshPolls]_vars
    /\ \A m \in MonIds : MonRunning(m) ~> (mon[m].pc = "done")
    /\ \A r \in RefIds : RefLive(r) ~> (ref[r].pc = "done")

\* C23, witness: a monitor has run out of polls while the task was still
\* downloading, and a refresher has returned as well.
C23_Witness ==
    /\ \E m \in MonIds : mon[m].pc = "done" /\ mon[m].exit = "cap"
    /\ \E r \in RefIds : ref[r].pc = "done"
    /\ \E g \in Gids : remote[g] \in LiveStatus /\ g \notin notified_gids

\* Every loop that was started has returned.
AllLoopsExited ==
    /\ \A m \in MonIds : ~MonRunning(m)
    /\ \A r \in RefIds : ~RefLive(r)

\* C24: the step in which a monitor loop returns, for whatever reason,
\* leaves the monitor map without an entry for its task id; the step in
\* which a refresher loop returns leaves the refresher map without an entry
\* for that loop; and once every loop has returned both maps are empty.
C24_BookkeepingRemoved ==
    [][/\ \A m \in MonIds :
            (MonRunning(m) /\ mon'[m].pc = "done") =>
                download_monitors'[mon[m].gid] = 0
       /\ \A r \in RefIds :
            /\ (RefLive(r) /\ ref'[r].pc = "done") =>
                   auto_refresh_tasks'[ref[r].key] # r
            /\ ref'[r].pc = "done" => auto_refresh_tasks'[ref'[r].key] # r
       /\ AllLoopsExited' =>
            /\ \A g \in Gids : download_monitors'[g] = 0
            /\ \A k \in Keys : auto_refresh_tasks'[k] = 0]_vars

\* C24, witness: one monitor has returned at the cap and one after a
\* terminal status, the refreshers have returned, and nothing runs any more.
C24_Witness ==
    /\ AllLoopsExited
    /\ \E m \in MonIds : mon[m].pc = "done" /\ mon[m].exit = "cap"
    /\ \E m \in MonIds : mon[m].pc = "done" /\ mon[m].exit \in {"complete", "error"}
    /\ \A r \in 1..MaxLoopRefreshers : ref[r].pc = "done"

\* The monitor loops of task g that have been created and have not returned.
LiveMonitors(g) == {m \in MonIds : MonRunning(m) /\ mon[m].gid = g}

\* C25: at most one monitor started through _start_download_monitor is live
\* for a task id; the id is a key of the monitor map exactly while that loop
\* has been created and has not returned, and the map names it; a start
\* request for an id that is in the map creates no loop.
C25_OneMonitorPerGid ==
    [][/\ \A g \in Gids :
            /\ Cardinality(LiveMonitors(g))' <= 1
            /\ (download_monitors'[g] # 0) <=> (LiveMonitors(g)' # {})
            /\ download_monitors'[g] # 0 => LiveMonitors(g)' = {download_monitors'[g]}
       /\ \A m \in MonIds :
            (mon[m].pc = "idle" /\ mon'[m].pc # "idle") =>
                download_monitors[mon'[m].gid] = 0]_vars

\* C25, witness: a second monitor was started for the task after the first
\* one had returned, and it is the one the map names.
C25_Witness ==
    \E g \in Gids, m, n \in MonIds :
        /\ mon[m].pc = "done" /\ mon[m].gid = g
        /\ MonRunning(n) /\ mon[n].gid = g
        /\ download_monitors[g] = n

\* C26: every task id in the notified set has had a completion or failure
\* notification accepted by the sink, the send that is still awaited by the
\* monitor that marked the id aside.
C26_NotifiedImpliesDelivered ==
    \A g \in notified_gids :
        \/ \E m \in MonIds : mon[m].pc = "notify" /\ mon[m].gid = g
        \/ notify_ok[g]["complete"] + notify_ok[g]["error"] >= 1

\* C27: once post_init has run, get_bot_instance() returns the bot of the
\* application, so a monitor that marks a task id as notified issues a send
\* call for it.
C27_SinkWired ==
    /\ app_bot_instance => get_bot_instance
    /\ \A g \in Gids :
         (app_bot_instance /\ g \in notified_gids) =>
             notify_calls[g]["complete"] + notify_calls[g]["error"] >= 1

\* An upload the coordinator has handed to asyncio.gather, or is about to,
\* and that has not returned its result.
UploadInFlight(u) == u \in {"start", "notice", "xfer", "report"}
UploadReturned(u) == u \in {"none", "T", "F"}

\* C28: in coordinated mode no step of either upload deletes the local
\* file; the file is deleted only by the coordinator's step after gather,
\* when both uploads have returned, and at most once per invocation; so
\* while a coordinated upload is in flight the coordinator has not deleted
\* the file and the file is still there.
C28_CoordinatedDelete ==
    [][/\ \A c \in CoordIds :
            /\ (coord[c].pc = "gather" /\ coord'[c].pc = "gather") => file' = file
            /\ coord[c].deleted => (coord'[c].deleted /\ file' = file)
            /\ (coord'[c].mode = "coordinated"
                  /\ (UploadInFlight(coord'[c].od) \/ UploadInFlight(coord'[c].tg))) =>
                   /\ ~coord'[c].deleted
                   /\ file'[coord'[c].gid] # "absent"
       /\ \A g \in Gids :
            (file[g] # "absent" /\ file'[g] = "absent") =>
                \E c \in CoordIds :
                    /\ coord[c].gid = g /\ coord[c].mode = "coordinated"
                    /\ coord[c].pc = "gather"
                    /\ UploadReturned(coord[c].od) /\ UploadReturned(coord[c].tg)
                    /\ ~coord[c].deleted /\ coord'[c].deleted]_vars

\* C28, witness: both uploads of a coordinated invocation succeeded, and the
\* coordinator has deleted the file after them.
C28_Witness ==
    \E c \in CoordIds :
        /\ coord[c].mode = "coordinated"
        /\ coord[c].od = "T" /\ coord[c].tg = "T"
        /\ coord[c].deleted
        /\ file[coord[c].gid] = "absent"

\* C29: a send that fails in a monitor (the sink accepted nothing) does not
\* raise out of the loop: the monitor returns as after a delivered
\* notification and the monitor map has no entry for its task id; an edit
\* that fails in a refresher ends the loop with the entry of its key removed,
\* nothing marked and no coordinator started.
C29_SinkFailuresContained ==
    [][/\ \A m \in MonIds :
            (mon[m].pc = "notify" /\ mon'[m].pc # "notify" /\ notify_ok' = notify_ok) =>
                /\ mon'[m].pc = "done"
                /\ mon'[m].exit = mon[m].kind
                /\ download_monitors'[mon[m].gid] = 0
                /\ \A n \in MonIds \ {m} : mon'[n] = mon[n]
       /\ \A r \in RefIds :
            (ref[r].pc = "edit" /\ ref'[r].pc = "done" /\ ref[r].status \notin TerminalStatus) =>
                /\ ref'[r].exit = "other"
                /\ auto_refresh_tasks'[ref[r].key] = 0
                /\ \A q \in RefIds \ {r} : ref'[q] = ref[q]
                /\ UNCHANGED <<guardVars, coord, monVars>>]_vars

\* C29, witness: a send for the task was issued and not accepted, the
\* monitor that issued it has returned and is out of the map; a refresher of
\* the task has returned too and its key has no entry.
C29_Witness ==
    \E m \in MonIds, r \in RefIds :
        /\ mon[m].pc = "done" /\ mon[m].exit \in {"complete", "error"}
        /\ notify_calls[mon[m].gid][mon[m].exit] > notify_ok[mon[m].gid][mon[m].exit]
        /\ download_monitors[mon[m].gid] = 0
        /\ ref[r].pc = "done" /\ ref[r].gid = mon[m].gid
        /\ auto_refresh_tasks[ref[r].key] = 0

\* The status query of monitor m failed in this step (download.py 171-172).
MonitorRpcFailed(m) ==
    mon[m].pc = "poll" /\ mon'[m].pc = "done" /\ mon'[m].exit = "rpcerror"

\* The status query of refresher r failed in this step (callbacks.py
\* 337-338): the loop returned from its query although the daemon holds the
\* task in a status that ends no loop.
RefresherRpcFailed(r) ==
    /\ ref[r].pc = "poll" /\ ref'[r].pc = "done"
    /\ remote[ref[r].gid] \notin TerminalStatus

\* The loops and map entries of the tasks other than g are as they were.
OtherTasksUntouched(g) ==
    /\ \A m \in MonIds : mon[m].gid # g => mon'[m] = mon[m]
    /\ \A h \in TwoGids \ {g} : download_monitors'[h] = download_monitors[h]
    /\ \A q \in RefIds :
         ref[q].gid # g =>
             /\ ref'[q] = ref[q]
             /\ \A k \in Keys : auto_refresh_tasks[k] = q => auto_refresh_tasks'[k] = q

\* C30: a status query that fails in the monitor or refresher loop of task g
\* ends only that loop: the step leaves the notified, auto-uploaded and
\* channel-uploaded sets as they were, and leaves the loops of every other
\* task and their entries in the two maps untouched.
C30_FailureIsolation ==
    [][/\ \A m \in MonIds :
            MonitorRpcFailed(m) =>
                /\ UNCHANGED <<notified_gids, guardVars>>
                /\ \A n \in MonIds \ {m} : mon'[n] = mon[n]
                /\ UNCHANGED refVars
                /\ OtherTasksUntouched(mon[m].gid)
       /\ \A r \in RefIds :
            RefresherRpcFailed(r) =>
                /\ UNCHANGED <<notified_gids, guardVars>>
                /\ \A q \in RefIds \ {r} : ref'[q] = ref[q]
                /\ UNCHANGED <<mon, download_monitors>>
                /\ OtherTasksUntouched(ref[r].gid)]_vars

C32_SingleErrorKind ==
    (pure.fn = "_call" /\ pure.pc = "return") =>
        /\ pure.out[1] \in {"RpcError", "return"}
        /\ pure.out[1] = "RpcError" => pure.out[2] # ""
        /\ pure.out[1] = "return" <=> pure.arg = <<"ok", "object", "absent">>

\* C33: a status query that answers with a status the bot does not know
\* ends neither loop: the monitor goes to its sleep without marking or
\* notifying (it returns at this step only when the query itself failed), the
\* refresher renders the text or goes to its sleep (it returns at these steps
\* only on RpcError or a failed edit), and nothing is handed to the uploads.
C33_UnknownIsNotTerminal ==
    [][/\ \A m \in MonIds :
            (mon[m].pc = "poll" /\ remote[mon[m].gid] = "unknown" /\ mon'[m] # mon[m]) =>
                /\ \/ mon'[m].pc = "sleep" /\ mon'[m].polls = mon[m].polls
                   \/ mon'[m].pc = "done" /\ mon'[m].exit = "rpcerror"
                /\ UNCHANGED <<notified_gids, notify_calls, notify_ok>>
       /\ \A r \in RefIds :
            /\ (ref[r].pc = "poll" /\ remote[ref[r].gid] = "unknown" /\ ref'[r] # ref[r]) =>
                   /\ \/ ref'[r].pc = "edit" /\ ref'[r].status = "unknown"
                      \/ ref'[r].pc = "sleep" /\ ref'[r].polls = ref[r].polls
                      \/ ref'[r].pc = "done" /\ ref'[r].exit = "other"
                      \/ ref'[r].pc = "cancelled"
                   /\ UNCHANGED <<notified_gids, guardVars, coord>>
            /\ (ref[r].pc = "edit" /\ ref[r].status = "unknown" /\ ref'[r] # ref[r]) =>
                   /\ \/ ref'[r].pc = "sleep" /\ ref'[r].polls = ref[r].polls
                      \/ ref'[r].pc = "done" /\ ref'[r].exit = "other"
                      \/ ref'[r].pc = "cancelled"
                   /\ UNCHANGED <<notified_gids, guardVars, coord>>]_vars

\* C33, witness: the daemon has answered nothing but the unknown status so
\* far, and a monitor and a refresher of the task are both at their second
\* status query.
C33_Witness ==
    \E m \in MonIds, r \in RefIds :
        /\ mon[m].pc = "poll" /\ mon[m].polls = 2
        /\ ref[r].pc = "poll" /\ ref[r].polls = 2 /\ ref[r].last = RenderText("unknown", 0)
        /\ remote[mon[m].gid] = "unknown" /\ ref[r].gid = mon[m].gid

\* C34: for every snapshot with total and completed lengths that are not
\* negative, completed above total included, the progress bar is 10 cells
\* wide (filled and empty cells together) and its fill level is within 0..10.
C34_FixedWidthBar ==
    (pure.fn = "progress_bar" /\ pure.pc = "return") =>
        /\ pure.out[1] + pure.out[2] = 10
        /\ pure.out[1] \in 0..10

\* One OneDrive upload run by _do_auto_upload, with its progress reports.
InitUpload ==
    /\ InitCore
    /\ pure = NoCall
    /\ remote = [g \in Gids |-> "complete"]
    /\ onedrive_config \in {KeepFile, DeleteFile}
    /\ telegram_channel_config = NoBackend

NextUpload ==
    \/ set_bot_instance
    \/ \E g \in Gids, skip_delete \in BOOLEAN, file_size \in 0..MaxFileSize :
         do_auto_upload(g, skip_delete, file_size)
    \/ \E ok \in BOOLEAN : UploadNoticeReturn(ok)
    \/ \E outcome \in {"ok", "unauthenticated", "raised"} : UploadPrepareReturn(outcome)
    \/ \E outcome \in {"ok", "refused", "raised"} : UploadSessionReturn(outcome)
    \/ \E response \in {"accepted", "created", "refused", "raised", "eof"} :
         UploadChunkReturn(response)
    \/ UploadLoopExit
    \/ UploadCompleted
    \/ UploadResultReturn
    \/ update_progress
    \/ UploadTick

SpecUpload == InitUpload /\ [][NextUpload]_vars

Reports == upload.reports
ConsecutiveReports == {i \in 1..Len(Reports) : i + 1 <= Len(Reports)}

EditsOnlyWhenUploading ==
    \A i \in 1..Len(upload.edits) :
        /\ upload.edits[i].status = "uploading"
        /\ upload.edits[i].total_size > 0
        /\ \E j \in 1..Len(Reports) : Reports[j] = upload.edits[i]

\* C35 as stated: during one upload a progress message edit is issued only
\* for a report in state uploading with total size above 0, and any two
\* consecutive progress reports of the upload are at least 2 time-units
\* apart.
C35_AllReportsSpaced ==
    /\ EditsOnlyWhenUploading
    /\ \A i \in ConsecutiveReports :
         Reports[i + 1].at - Reports[i].at >= PROGRESS_UPDATE_INTERVAL

\* C35, amended: a progress message edit is issued only for a report in
\* state uploading with total size above 0, and two consecutive reports in
\* state uploading are at least 2 time-units apart; the closing report
\* (completed or failed) follows at any distance and causes no edit.
C35_UploadingReportsSpaced ==
    /\ EditsOnlyWhenUploading
    /\ \A i \in ConsecutiveReports :
         (Reports[i].status = "uploading" /\ Reports[i + 1].status = "uploading")
             => Reports[i + 1].at - Reports[i].at >= PROGRESS_UPDATE_INTERVAL
    /\ \A i \in 1..Len(Reports) :
         Reports[i].status # "uploading" => i = Len(Reports)

\* Three reports in state uploading went out, the edits for them were
\* issued, and the closing report followed.
C35_Witness ==
    /\ upload.pc = "done"
    /\ Len(Reports) = 4
    /\ Reports[4].status = "completed"
    /\ Len(upload.edits) = 3

\* TelegramChannelClient.upload_file alone, called again and again.  Each
\* await of the call ends: send_document carries its timeouts and
\* asyncio.sleep returns.
InitChannel ==
    /\ InitCore
    /\ pure = NoCall
    /\ remote = [g \in Gids |-> "complete"]
    /\ onedrive_config = NoBackend
    /\ telegram_channel_config = KeepFile

ChannelAwaits ==
    \/ \E outcome \in SendOutcomes : ChannelSendReturn(outcome)
    \/ ChannelWake

NextChannel ==
    \/ \E exists \in BOOLEAN, file_size \in FileSizes, channel_id \in ChannelIds,
          is_local_api \in BOOLEAN :
         channel_upload_file(exists, file_size, channel_id, is_local_api)
    \/ \E outcome \in SendOutcomes : ChannelSendReturn(outcome)
    \/ ChannelWake

SpecChannel == InitChannel /\ [][NextChannel]_vars /\ WF_vars(ChannelAwaits)

Sends == {i \in 1..Len(channel_upload.log) : channel_upload.log[i] = "send"}
Sleeps == {i \in 1..Len(channel_upload.log) : channel_upload.log[i] = "sleep"}

\* The shape of one call: at most 3 sends; a sleep of 5 between two sends
\* and nowhere else; (True, file id) ends the call at the attempt that
\* succeeded; (False, text) comes after 3 failed sends or after a failed
\* precheck without any send.
ChannelRetryShape ==
    /\ Cardinality(Sends) <= MAX_RETRIES
    /\ \A i \in 1..Len(channel_upload.log) :
         channel_upload.log[i] = (IF i % 2 = 1 THEN "send" ELSE "sleep")
    /\ channel_upload.slept \in {RETRY_DELAY * Cardinality(Sleeps),
                                 RETRY_DELAY * (Cardinality(Sleeps) - 1)}
    /\ channel_upload.pc = "done" =>
         /\ channel_upload.slept = RETRY_DELAY * Cardinality(Sleeps)
         /\ channel_upload.result # <<>>
         /\ channel_upload.result[1] =>
              /\ channel_upload.result[2] = "file_id"
              /\ Cardinality(Sends) = channel_upload.attempt + 1
              /\ Cardinality(Sleeps) = channel_upload.attempt
         /\ ~channel_upload.result[1] =>
              \/ /\ Cardinality(Sends) = MAX_RETRIES
                 /\ Cardinality(Sleeps) = MAX_RETRIES - 1
                 /\ channel_upload.result[2] = channel_upload.last_error
                 /\ channel_upload.last_error # "none"
              \/ /\ channel_upload.log = <<>>
                 /\ channel_upload.result[2] \in {"missing", "over_limit", "no_channel"}
                 /\ \/ ~channel_upload.exists
                    \/ channel_upload.file_size > channel_upload.max_size
                    \/ channel_upload.channel_id = ""
         /\ channel_upload.log # <<>> =>
              /\ channel_upload.exists
              /\ channel_upload.file_size <= channel_upload.max_size
              /\ channel_upload.channel_id # ""

\* C36: upload_file makes at most 3 send attempts, stops at the first
\* successful one returning (True, file id), waits 5 time-units between
\* attempts but not after the last, returns (False, error text) only after
\* 3 failed attempts or after a failed precheck without any send, and every
\* call returns.
C36_BoundedRetry ==
    /\ []ChannelRetryShape
    /\ (channel_upload.pc \in {"send", "sleep"}) ~> (channel_upload.pc = "done")

\* Three sends failed with two sleeps in between, and the call returned
\* the last error.
C36_Witness ==
    /\ channel_upload.pc = "done"
    /\ channel_upload.log = <<"send", "sleep", "send", "sleep", "send">>
    /\ channel_upload.slept = 2 * RETRY_DELAY
    /\ channel_upload.result = <<FALSE, "TimedOut">>

\* Updates from any user reach any registered handler; handle_callback
\* carries a confirmed deletion.
AllowedSets == SUBSET UserIds

InitGate ==
    /\ InitBot
    /\ service = ServiceNone
    /\ allowed_users \in AllowedSets
    /\ pure = NoCall
    /\ remote = [g \in Gids |-> "active"]
    /\ onedrive_config = NoBackend
    /\ telegram_channel_config = NoBackend

NextGate ==
    \/ \E h \in Handlers, update \in Updates : wrapped(h, update)
    \/ GateReplyReturn
    \/ HandlerReturn
    \/ /\ InBody("handle_callback")
       /\ \/ \E g \in Gids, delete_file \in BOOLEAN :
               handle_confirm_delete_callback(g, delete_file)
          \/ DeleteStatusReturn
          \/ \E ok \in BOOLEAN : DeleteRemoveReturn(ok)
          \/ \E ok \in BOOLEAN : DeleteForceReturn(ok)
          \/ \E ok \in BOOLEAN : DeletePurgeReturn(ok)
          \/ DeleteFilesReturn
          \/ DeleteRenderReturn

SpecGate == InitGate /\ [][NextGate]_vars

\* The bot's own state: everything but the daemon, the files and the
\* update being dispatched.
botVars == <<wiringVars, monVars, refVars, guardVars, cfgVars, coord, manual,
             deleting, upload, channel_upload, allowed_users>>

Permitted(update) == update.effective_user /\ update.id \in allowed_users
Rejecting == (gate.pc = "idle" /\ gate'.pc = "reply") \/ gate.pc = "reply"

\* C37: for every registered handler and every update, the handler body
\* runs only if the update's user id is in allowed_users; with allowed_users
\* empty every update is rejected; a rejected update changes no bot state.
C37_PermissionGate ==
    [][/\ gate'.pc = "body" => Permitted(gate'.update)
       /\ (allowed_users = {} /\ gate.pc = "idle" /\ gate'.pc # "idle") => gate'.pc = "reply"
       /\ Rejecting => (botVars' = botVars /\ remoteVars' = remoteVars)
       /\ botVars' # botVars => (gate.pc = "body" /\ Permitted(gate.update))]_vars

\* A deletion confirmed by a permitted user went through, and the next
\* update, from a user who is not allowed, is being refused.
C37_Witness ==
    /\ deleting.pc = "done"
    /\ gate.pc = "reply"
    /\ gate.handler = "handle_callback"
    /\ gate.reason = "unauthorized"
    /\ gate.update.effective_user

\* The supervisor alone: the machine has aria2 installed or not, an
\* aria2.conf or not, and an aria2c of its own running or not.
InitService ==
    /\ InitBot
    /\ allowed_users = OneUser
    /\ pure = NoCall
    /\ remote = [g \in Gids |-> "none"]
    /\ onedrive_config = NoBackend
    /\ telegram_channel_config = NoBackend
    /\ \E installed \in BOOLEAN, conf \in BOOLEAN, unmanaged \in BOOLEAN :
         service = [ServiceNone EXCEPT !.installed = installed, !.conf = conf,
                                       !.unmanaged = unmanaged]

StartOutcomes == {"runs", "exits", "spawn_failed"}

NextService ==
    \/ SubprocessServiceManager_new
    \/ \E outcome \in StartOutcomes : service_start(outcome)
    \/ \E exits \in BOOLEAN : service_stop(exits)
    \/ \E exits \in BOOLEAN, outcome \in StartOutcomes : service_restart(exits, outcome)
    \/ \E c \in ChildIds : ChildExit(c)

SpecService == InitService /\ [][NextService]_vars

AliveChildren(sv) == {c \in ChildIds : sv.child[c] = "alive"}
ServiceCall(op) == service'.seq # service.seq /\ service'.last = op

\* C38: after any sequence of start(), stop() and restart() at most one
\* managed aria2 child is alive; start() while the managed child is alive
\* spawns nothing; after stop() of a live managed child none is alive.
C38_OneManagedChild ==
    [][/\ Cardinality(AliveChildren(service')) <= 1
       /\ (ServiceCall("start") /\ AliveChildren(service) # {})
            => (service'.spawned = service.spawned /\ service'.child = service.child)
       /\ (ServiceCall("stop") /\ AliveChildren(service) # {})
            => AliveChildren(service') = {}]_vars

\* A second child is running after the first was stopped, and start() has
\* just been called again.
C38_Witness ==
    /\ service.last = "start"
    /\ service.raised = "none"
    /\ service.spawned = 2
    /\ service.child[1] = "dead"
    /\ service.child[2] = "alive"
    /\ service.handles = 2

====
